---- MODULE Spec2Model ----
(***************************************************************************)
(* Model of the Baryon visualization (jbcupps/Baryon).                     *)
(*                                                                         *)
(* Part 1 models the AnimationDriver of the four visualization components  *)
(* (ThreeJSVisualization, EnhancedThreeJSVisualization,                    *)
(* FluidEnhancedThreeJSVisualization, OptimizedThreeJSVisualization)       *)
(* together with the owner state (isPlaying, progress) and the control     *)
(* panels that write it.                                                   *)
(*                                                                         *)
(* Part 2 models FluidDynamicsEngine.calculateProximityPhysics in exact    *)
(* rational arithmetic.  Parts 3 to 9 model further operations, each as a  *)
(* call made on drawn arguments: performFluidBlending, the necking bridges *)
(* of a render, ColorConfinementEngine.calculateBordismClass, the edge     *)
(* cases of the proximity and deformation passes, the setters of the       *)
(* fluid dynamics parameters, the vertex buffer of a Klein bottle, and     *)
(* SimplePerlinNoise with generateFluidKleinBottleSurface.                 *)
(***************************************************************************)
EXTENDS Integers, Naturals, Sequences, FiniteSets, TLC

VARIABLES
    variant,        \* which visualization component the page mounts
    dsimTimeStep,   \* optional step prop of the component
    mounted,        \* the component is mounted (its mount effect has run)
    isPlaying,      \* owner state: useState / context isPlaying
    progress,       \* owner state: progress, in units of 1/ProgressUnit
    isPlayingRef,   \* mirror ref read by animate (Three, Enhanced)
    progressRef,    \* mirror ref read by animate (Three, Enhanced)
    capIsPlaying,   \* isPlaying of the render whose closure animate keeps
    capProgress,    \* progress of the render whose closure animate keeps
    frameRef,       \* frameRef.current, the frame index
    rafPending,     \* a requestAnimationFrame(animate) request is outstanding
    effectPending,  \* the "update rendering when props change" effect is due
    rendered,       \* the last run of the per-frame pipeline
    ticks,          \* number of animate callbacks run so far (bounded)
    positions,      \* calculateProximityPhysics: anchors argument
    params,         \* calculateProximityPhysics: params argument
    results,        \* calculateProximityPhysics: returned matrix
    pcProx,         \* "input" before the call, "done" after it
    call,           \* the engine call under study: its name and arguments
    ret,            \* what that call returned
    pcCall,         \* "idle", "input" before the call, "done" after it
    engine,         \* the fields of the engine instance the call runs on
    history         \* the calls made on that instance, with what they returned

vars == <<variant, dsimTimeStep, mounted, isPlaying, progress, isPlayingRef,
          progressRef, capIsPlaying, capProgress, frameRef, rafPending,
          effectPending, rendered, ticks, positions, params, results, pcProx,
          call, ret, pcCall, engine, history>>

driverVars == <<variant, dsimTimeStep, mounted, isPlaying, progress,
                isPlayingRef, progressRef, capIsPlaying, capProgress,
                frameRef, rafPending, effectPending, rendered, ticks>>

proxVars == <<positions, params, results, pcProx>>

callVars == <<call, ret, pcCall, engine, history>>

\* everything outside the animation driver
engineVars == <<proxVars, callVars>>

(***************************************************************************)
(* Bounds of the model                                                     *)
(***************************************************************************)
\* number of animate callbacks explored after the first ones
MaxTicks == 2

(***************************************************************************)
(* Part 1: AnimationDriver                                                 *)
(***************************************************************************)
Variants == {"Three", "Enhanced", "Fluid", "Optimized"}

Abs(a) == IF a >= 0 THEN a ELSE -a

RECURSIVE GCD(_, _)
GCD(a, b) == IF b = 0 THEN a ELSE GCD(b, a % b)

\* the literal 100 of the Three, Enhanced and Fluid loops
LiteralTotalFrames == 100

\* animationConfig.total_frames of the Optimized component
ConfigTotalFrames == 60

\* positions of the progress slider: max={100} step={1}, or max={1} step={0.01}
SliderMax == 100

\* progress values are kept exactly, as multiples of 1/ProgressUnit, the
\* least common denominator of the frame counts and the slider
ProgressUnit ==
    (LiteralTotalFrames * ConfigTotalFrames) \div GCD(LiteralTotalFrames, ConfigTotalFrames)

\* slider positions the model lets the user seek to (0..SliderMax)
SeekValues == {29, 99, 100}

\* total_frames of the variant: the literal 100, or animationConfig.total_frames
TotalFrames(v) == IF v = "Optimized" THEN ConfigTotalFrames ELSE LiteralTotalFrames

\* the variants that feed the loop through ref mirrors
Mirrored(v) == v \in {"Three", "Enhanced"}

\* the variants whose render takes the anchors from the currentPositions memo
MemoAnchors(v) == v \in {"Enhanced", "Fluid"}

\* the page of the Fluid variant uses EssentialControls, the others ControlPanel
UsesEssentialControls(v) == v = "Fluid"

\* dsimTimeStep inputs, in tenths; defined = FALSE is the omitted prop
StepUndefined == [defined |-> FALSE, tenths |-> 0]

StepInputs == {StepUndefined,
               [defined |-> TRUE, tenths |-> -5],
               [defined |-> TRUE, tenths |-> 27]}

\* the components that declare the dsimTimeStep prop
HasStepProp(v) == v \in {"Three", "Enhanced"}

\* Math.floor of a number given in tenths
FloorTenths(t) == IF t >= 0 THEN t \div 10 ELSE -((-t + 9) \div 10)

Max(a, b) == IF a >= b THEN a ELSE b

\* const step = Math.max(1, Math.floor((dsimTimeStep ?? 1.0)));
\* the Fluid and Optimized variants add the literal 1
Step(v, s) ==
    IF HasStepProp(v)
    THEN Max(1, FloorTenths(IF s.defined THEN s.tenths ELSE 10))
    ELSE 1

\* value[0] / 100 of the slider, as a progress value
SliderProgress(x) == x * (ProgressUnit \div SliderMax)

\* frameRef.current / total_frames, as a progress value
FrameProgress(v, f) == f * (ProgressUnit \div TotalFrames(v))

\* Math.floor(progress * total_frames) in IEEE double arithmetic: the product
\* (x/100)*100 is 28.999999999999996, 56.99999999999999 and 57.99999999999999
\* for x = 29, 57 and 58, and is exact for every other value the model uses
FloorFrame(v, p) ==
    LET exact == (p * TotalFrames(v)) \div ProgressUnit
    IN  IF TotalFrames(v) = LiteralTotalFrames /\ p \in {SliderProgress(29), SliderProgress(57), SliderProgress(58)}
        THEN exact - 1
        ELSE exact

NoRender == [by |-> "none", frame |-> 0, anchors |-> 0]

\* what animate reads as isPlaying: the mirror, or the captured prop
LoopIsPlaying == IF Mirrored(variant) THEN isPlayingRef ELSE capIsPlaying

\* what animate reads as progress: the mirror, or the captured prop
LoopProgress == IF Mirrored(variant) THEN progressRef ELSE capProgress

\* the "update animation frame" block of animate, given what the loop reads
NextFrame(v, s, playing, p, f) ==
    IF playing THEN (f + Step(v, s)) % TotalFrames(v) ELSE FloorFrame(v, p)

\* anchors a pipeline run works on: the currentPositions memo of the render
\* that owns the closure, or positions interpolated from animationProgress
Anchors(v, f, memoProgress) ==
    IF MemoAnchors(v) THEN memoProgress ELSE FrameProgress(v, f)

InitDriver ==
    /\ variant \in Variants
    /\ dsimTimeStep \in (IF HasStepProp(variant) THEN StepInputs ELSE {StepUndefined})
    /\ mounted = FALSE
    /\ isPlaying = FALSE
    /\ progress = 0
    /\ isPlayingRef = FALSE
    /\ progressRef = 0
    /\ capIsPlaying = FALSE
    /\ capProgress = 0
    /\ frameRef = 0
    /\ rafPending = FALSE
    /\ effectPending = FALSE
    /\ rendered = NoRender
    /\ ticks = 0

\* mount: the refs are created (frameRef at 0, the mirrors at the props), the
\* mount effect builds the scene and calls animate() once, then the
\* prop-change effect renders
Mount ==
    /\ ~mounted
    /\ LET f == NextFrame(variant, dsimTimeStep, isPlaying, progress, 0)
       IN  /\ frameRef' = f
           /\ progress' = IF isPlaying THEN FrameProgress(variant, f) ELSE progress
           /\ rendered' = [by |-> "effect", frame |-> f,
                           anchors |-> Anchors(variant, f, progress)]
           /\ effectPending' = (isPlaying /\ FrameProgress(variant, f) # progress)
    /\ mounted' = TRUE
    /\ isPlayingRef' = IF Mirrored(variant) THEN isPlaying ELSE isPlayingRef
    /\ progressRef' = IF Mirrored(variant) THEN progress ELSE progressRef
    /\ capIsPlaying' = isPlaying
    /\ capProgress' = progress
    /\ rafPending' = TRUE
    /\ UNCHANGED <<variant, dsimTimeStep, isPlaying, ticks>>
    /\ UNCHANGED engineVars

\* a cleanup that leaves the frame request outstanding
UnmountNoCancel ==
    /\ mounted
    /\ mounted' = FALSE
    /\ effectPending' = FALSE
    /\ UNCHANGED <<variant, dsimTimeStep, isPlaying, progress, isPlayingRef,
                   progressRef, capIsPlaying, capProgress, frameRef, rendered,
                   ticks, rafPending>>
    /\ UNCHANGED engineVars

\* effect cleanup: cancelAnimationFrame(animationIdRef.current)
Unmount ==
    /\ mounted
    /\ mounted' = FALSE
    /\ rafPending' = FALSE
    /\ effectPending' = FALSE
    /\ UNCHANGED <<variant, dsimTimeStep, isPlaying, progress, isPlayingRef,
                   progressRef, capIsPlaying, capProgress, frameRef, rendered,
                   ticks>>
    /\ UNCHANGED engineVars

\* animate: re-request the frame, update the frame index, report progress
\* (onProgressChange = setProgress), run the per-frame pipeline
Tick ==
    /\ rafPending
    /\ ticks < MaxTicks
    /\ LET f == NextFrame(variant, dsimTimeStep, LoopIsPlaying, LoopProgress, frameRef)
           p == IF LoopIsPlaying THEN FrameProgress(variant, f) ELSE progress
       IN  /\ frameRef' = f
           /\ progress' = p
           /\ effectPending' = (effectPending \/ p # progress)
           /\ rendered' = [by |-> "tick", frame |-> f,
                           anchors |-> Anchors(variant, f, capProgress)]
    /\ rafPending' = TRUE
    /\ ticks' = ticks + 1
    /\ UNCHANGED <<variant, dsimTimeStep, mounted, isPlaying, isPlayingRef,
                   progressRef, capIsPlaying, capProgress>>
    /\ UNCHANGED engineVars

\* onClick={() => setIsPlaying(!isPlaying)}
TogglePlay ==
    /\ isPlaying' = ~isPlaying
    /\ UNCHANGED <<variant, dsimTimeStep, mounted, progress, isPlayingRef,
                   progressRef, capIsPlaying, capProgress, frameRef,
                   rafPending, effectPending, rendered, ticks>>
    /\ UNCHANGED engineVars

\* handleReset: setProgress(0); setIsPlaying(false)
handleReset ==
    /\ progress' = 0
    /\ isPlaying' = FALSE
    /\ effectPending' = (mounted /\ (effectPending \/ progress # 0))
    /\ UNCHANGED <<variant, dsimTimeStep, mounted, isPlayingRef, progressRef,
                   capIsPlaying, capProgress, frameRef, rafPending, rendered,
                   ticks>>
    /\ UNCHANGED engineVars

\* ControlPanel.handleProgressChange: setProgress(value[0] / 100); setIsPlaying(false)
\* EssentialControls slider: setProgress(value[0] ?? 0)
handleProgressChange(x) ==
    /\ progress' = SliderProgress(x)
    /\ isPlaying' = IF UsesEssentialControls(variant) THEN isPlaying ELSE FALSE
    /\ effectPending' = (mounted /\ (effectPending \/ progress # SliderProgress(x)))
    /\ UNCHANGED <<variant, dsimTimeStep, mounted, isPlayingRef, progressRef,
                   capIsPlaying, capProgress, frameRef, rafPending, rendered,
                   ticks>>
    /\ UNCHANGED engineVars

\* useEffect(() => { isPlayingRef.current = isPlaying; }, [isPlaying])
SyncIsPlayingRef ==
    /\ mounted
    /\ Mirrored(variant)
    /\ isPlayingRef # isPlaying
    /\ isPlayingRef' = isPlaying
    /\ UNCHANGED <<variant, dsimTimeStep, mounted, isPlaying, progress,
                   progressRef, capIsPlaying, capProgress, frameRef,
                   rafPending, effectPending, rendered, ticks>>
    /\ UNCHANGED engineVars

\* useEffect(() => { progressRef.current = progress; }, [progress])
SyncProgressRef ==
    /\ mounted
    /\ Mirrored(variant)
    /\ progressRef # progress
    /\ progressRef' = progress
    /\ UNCHANGED <<variant, dsimTimeStep, mounted, isPlaying, progress,
                   isPlayingRef, capIsPlaying, capProgress, frameRef,
                   rafPending, effectPending, rendered, ticks>>
    /\ UNCHANGED engineVars

\* the prop-change effect: re-run the pipeline of the current render, which
\* reads frameRef.current as it is; the Enhanced variant skips the run when
\* frameRef.current already is Math.floor(progress * 100)
RenderEffect ==
    /\ mounted
    /\ effectPending
    /\ effectPending' = FALSE
    /\ rendered' = IF variant = "Enhanced" /\ frameRef = FloorFrame(variant, progress)
                   THEN rendered
                   ELSE [by |-> "effect", frame |-> frameRef,
                         anchors |-> Anchors(variant, frameRef, progress)]
    /\ UNCHANGED <<variant, dsimTimeStep, mounted, isPlaying, progress,
                   isPlayingRef, progressRef, capIsPlaying, capProgress,
                   frameRef, rafPending, ticks>>
    /\ UNCHANGED engineVars

NextDriver ==
    \/ Mount
    \/ Unmount
    \/ Tick
    \/ TogglePlay
    \/ handleReset
    \/ \E x \in SeekValues : handleProgressChange(x)
    \/ SyncIsPlayingRef
    \/ SyncProgressRef
    \/ RenderEffect

(***************************************************************************)
(* Part 2: FluidDynamicsEngine.calculateProximityPhysics                   *)
(***************************************************************************)
\* largest x coordinate of the anchors the model draws
MaxCoord == 5

\* the three quark anchors
NumAnchors == 3

\* a number as a normalised fraction n/d with d > 0; a division by zero
\* gives what IEEE arithmetic gives: 0/0 is NaN (0/0), x/0 is an infinity (+-1/0).
\* The operands of an arithmetic operator are evaluated once, as in the code:
\* the operators below bind them before they use them.
Rat(n0, d0) ==
    CHOOSE q \in
        {IF d = 0
         THEN [n |-> (IF n > 0 THEN 1 ELSE IF n < 0 THEN -1 ELSE 0), d |-> 0]
         ELSE LET g == GCD(Abs(n), Abs(d))
                  sgn == IF d < 0 THEN -1 ELSE 1
              IN  [n |-> sgn * (n \div g), d |-> sgn * (d \div g)] :
            n \in {n0}, d \in {d0}} : TRUE

\* Number.isFinite
IsFinite(a) == a.d > 0

NaN == [n |-> 0, d |-> 0]

Zero == Rat(0, 1)

One == Rat(1, 1)

RatMul(a0, b0) ==
    CHOOSE q \in {Rat(a.n * b.n, a.d * b.d) : a \in {a0}, b \in {b0}} : TRUE

\* least common multiple of two positive denominators
LCM(a, b) == (a \div GCD(a, b)) * b

RatAdd(a0, b0) ==
    CHOOSE q \in
        {IF IsFinite(a) /\ IsFinite(b)
         THEN Rat(a.n * (LCM(a.d, b.d) \div a.d) + b.n * (LCM(a.d, b.d) \div b.d),
                  LCM(a.d, b.d))
         ELSE IF IsFinite(b) THEN a
         ELSE IF IsFinite(a) \/ a = b THEN b
         ELSE NaN :
            a \in {a0}, b \in {b0}} : TRUE

RatSub(a, b0) ==
    CHOOSE q \in {RatAdd(a, [n |-> -b.n, d |-> b.d]) : b \in {b0}} : TRUE

RatAbs(a0) == CHOOSE q \in {Rat(Abs(a.n), a.d) : a \in {a0}} : TRUE

RatDiv(a0, b0) ==
    CHOOSE q \in {Rat(a.n * b.d, a.d * b.n) : a \in {a0}, b \in {b0}} : TRUE

RatLess(a0, b0) == \E a \in {a0}, b \in {b0} : a.n * b.d < b.n * a.d

\* Math.pow(base, e) for an integer exponent e >= 0; Math.pow(x, 0) is 1
RECURSIVE Pow(_, _)
Pow(base, e) == IF e = 0 THEN One ELSE RatMul(base, Pow(base, e - 1))

\* the largest k in lo..hi with k * k <= n, by bisection
RECURSIVE ISqrtBetween(_, _, _)
ISqrtBetween(lo, hi, n) ==
    IF lo >= hi THEN lo
    ELSE LET mid == (lo + hi + 1) \div 2
         IN  IF mid * mid <= n THEN ISqrtBetween(mid, hi, n)
             ELSE ISqrtBetween(lo, mid - 1, n)

\* square root of a perfect square
ISqrt(n) == ISqrtBetween(0, IF n < 46340 THEN n ELSE 46340, n)

IsSquare(n) == ISqrt(n) * ISqrt(n) = n

\* new THREE.Vector3(0, 0, 0)
ZeroVector == <<Zero, Zero, Zero>>

\* Vector3.sub
VecSub(a, b) == <<a[1] - b[1], a[2] - b[2], a[3] - b[3]>>

\* Vector3.lengthSq
LengthSq(a) == a[1] * a[1] + a[2] * a[2] + a[3] * a[3]

\* Vector3.distanceTo
DistanceTo(a, b) == ISqrt(LengthSq(VecSub(a, b)))

\* Vector3.normalize without the "|| 1" of divideScalar(length() || 1)
NormalizeUnguarded(a) ==
    LET len == ISqrt(LengthSq(a))
    IN  <<Rat(a[1], len), Rat(a[2], len), Rat(a[3], len)>>

\* a normalize that turns the zero vector into the x axis
NormalizeAxis(a) ==
    LET len == ISqrt(LengthSq(a))
    IN  IF len = 0 THEN <<Rat(1, 1), Rat(0, 1), Rat(0, 1)>>
        ELSE <<Rat(a[1], len), Rat(a[2], len), Rat(a[3], len)>>

\* Vector3.normalize: divideScalar(length() || 1)
Normalize(a) ==
    LET len == ISqrt(LengthSq(a))
        div == IF len = 0 THEN 1 ELSE len
    IN  <<Rat(a[1], div), Rat(a[2], div), Rat(a[3], div)>>

\* Vector3.multiplyScalar
MultiplyScalar(a, k) == <<RatMul(a[1], k), RatMul(a[2], k), RatMul(a[3], k)>>

\* anchors on the x axis and the apex of a 3-4-5 triangle
Points == {<<x, 0, 0>> : x \in 0..MaxCoord} \cup {<<3, 4, 0>>}

\* anchor arrays whose pairwise distances are whole numbers
PositionInputs ==
    {ps \in [1..NumAnchors -> Points] :
        \A i, j \in 1..NumAnchors : IsSquare(LengthSq(VecSub(ps[i], ps[j])))}

\* FluidDynamicsParameters, the fields calculateProximityPhysics reads
ParamInputs ==
    [proximityThreshold : {Rat(0, 1), Rat(2, 1), Rat(4, 1)},
     proximityInfluence : {Rat(0, 1), Rat(7, 10), Rat(1, 1)},
     forceDecayRate : {Rat(0, 1), Rat(4, 5), Rat(1, 1), Rat(2, 1)}]

\* DEFAULT_FLUID_DYNAMICS_PARAMS
DefaultParams ==
    [proximityThreshold |-> Rat(2, 1),
     proximityInfluence |-> Rat(7, 10),
     forceDecayRate |-> Rat(4, 5)]

\* the influence without the decay factor
InfluenceNoDecay(distance, ps) ==
    IF RatLess(Rat(distance, 1), ps.proximityThreshold)
    THEN RatMul(RatSub(One, RatDiv(Rat(distance, 1), ps.proximityThreshold)),
                ps.proximityInfluence)
    ELSE Zero

\* the influence without the linear falloff
InfluenceNoFalloff(distance, ps) ==
    IF RatLess(Rat(distance, 1), ps.proximityThreshold)
    THEN RatMul(ps.proximityInfluence, Pow(ps.forceDecayRate, distance))
    ELSE Zero

\* the body of the if, and the 0 it leaves otherwise
Influence(distance, ps) ==
    IF RatLess(Rat(distance, 1), ps.proximityThreshold)
    THEN RatMul(RatMul(RatSub(One, RatDiv(Rat(distance, 1), ps.proximityThreshold)),
                       ps.proximityInfluence),
                Pow(ps.forceDecayRate, distance))
    ELSE Zero

\* the pairs the double loop fills: i === j is skipped
OffDiagonal == {ij \in (1..NumAnchors) \X (1..NumAnchors) : ij[1] # ij[2]}

ProximityResult(pos, ps, i, j) ==
    LET distance == DistanceTo(pos[i], pos[j])
        direction == Normalize(VecSub(pos[j], pos[i]))
        influence == Influence(distance, ps)
    IN  [distance |-> distance,
         direction |-> direction,
         influence |-> influence,
         forceVector |-> MultiplyScalar(direction, influence)]

NoResults == [ij \in {} |-> 0]

InitProxIdle ==
    /\ positions = [i \in 1..NumAnchors |-> <<0, 0, 0>>]
    /\ params = DefaultParams
    /\ results = NoResults
    /\ pcProx = "idle"

ProxInputs ==
    /\ positions \in PositionInputs
    /\ params \in ParamInputs
    /\ results = NoResults
    /\ pcProx = "input"

calculateProximityPhysics ==
    /\ pcProx = "input"
    /\ results' = [ij \in OffDiagonal |-> ProximityResult(positions, params, ij[1], ij[2])]
    /\ pcProx' = "done"
    /\ UNCHANGED <<positions, params>>
    /\ UNCHANGED driverVars
    /\ UNCHANGED callVars

NextProx == calculateProximityPhysics

(***************************************************************************)
(* Specifications                                                          *)
(***************************************************************************)
\* no engine instance under study
NoEngine == [instance |-> "none"]

\* no engine call under study
CallIdle ==
    /\ call = [fn |-> "none"]
    /\ ret = <<>>
    /\ pcCall = "idle"
    /\ engine = NoEngine
    /\ history = <<>>

Init == InitDriver /\ InitProxIdle /\ CallIdle

Next == NextDriver

\* the animation driver, its owner state and its control panels
Spec == Init /\ [][Next]_vars

\* the driver part left as it is before the component mounts
DriverIdle ==
    /\ variant = "Fluid"
    /\ dsimTimeStep = StepUndefined
    /\ mounted = FALSE
    /\ isPlaying = FALSE
    /\ progress = 0
    /\ isPlayingRef = FALSE
    /\ progressRef = 0
    /\ capIsPlaying = FALSE
    /\ capProgress = 0
    /\ frameRef = 0
    /\ rafPending = FALSE
    /\ effectPending = FALSE
    /\ rendered = NoRender
    /\ ticks = 0

InitProx == DriverIdle /\ ProxInputs /\ CallIdle

\* one call of calculateProximityPhysics on every drawn input
SpecProx == InitProx /\ [][NextProx]_vars

(***************************************************************************)
(* Part 3: FluidDynamicsEngine.performFluidBlending                        *)
(***************************************************************************)
\* largest vertex count of the buffers the model draws
MaxVerts == 3

Half == Rat(1, 2)

Min(a, b) == IF a <= b THEN a ELSE b

RatMax(a, b) == IF RatLess(a, b) THEN b ELSE a

RatMin(a, b) == IF RatLess(a, b) THEN a ELSE b

\* Vector3.add
VecAdd(a, b) == <<RatAdd(a[1], b[1]), RatAdd(a[2], b[2]), RatAdd(a[3], b[3])>>

\* Vector3.lerp: this += (v - this) * alpha
Lerp(a, b, alpha) ==
    <<RatAdd(a[1], RatMul(RatSub(b[1], a[1]), alpha)),
      RatAdd(a[2], RatMul(RatSub(b[2], a[2]), alpha)),
      RatAdd(a[3], RatMul(RatSub(b[3], a[3]), alpha))>>

\* an S-curve that runs from 1 down to 0
calculateBlendingFactorReversed(p) ==
    LET normalizedProgress == RatSub(One, RatMax(Zero, RatMin(One, p)))
    IN  RatMul(RatMul(normalizedProgress, normalizedProgress),
               RatSub(Rat(3, 1), RatMul(Rat(2, 1), normalizedProgress)))

\* S-curve of the clamped progress
calculateBlendingFactor(p) ==
    LET normalizedProgress == RatMax(Zero, RatMin(One, p))
    IN  RatMul(RatMul(normalizedProgress, normalizedProgress),
               RatSub(Rat(3, 1), RatMul(Rat(2, 1), normalizedProgress)))

\* t < 0.5 ? 4 * t * t * t : 1 - Math.pow(-2 * t + 2, 3) / 2
easeInOutCubic(t) ==
    IF RatLess(t, Half)
    THEN RatMul(Rat(4, 1), Pow(t, 3))
    ELSE RatSub(One, RatMul(Pow(RatAdd(RatMul(Rat(-2, 1), t), Rat(2, 1)), 3), Half))

\* a buffer of n vertices, indexed from 0 like the Float32Array triples
VertexCount(buf) == Cardinality(DOMAIN buf)

\* the index of the vertex itself, whatever the buffer holds
SourceIndexSame(i, maxVertexCount, vertexCount) == i

\* Math.floor((i / maxVertexCount) * vertexCount)
SourceIndex(i, maxVertexCount, vertexCount) == (i * vertexCount) \div maxVertexCount

\* "Get vertex (or interpolate if fewer vertices)": the vertex itself, or the
\* one at the source index, with 0 for every coordinate the buffer lacks
SampleVertex(buf, i, maxVertexCount) ==
    IF i < VertexCount(buf) THEN buf[i]
    ELSE LET sourceIndex == SourceIndex(i, maxVertexCount, VertexCount(buf))
         IN  IF sourceIndex \in DOMAIN buf THEN buf[sourceIndex] ELSE ZeroVector

\* the smoothing loop; vertexA is the object blendedVertex, so the midpoint
\* vertexA.clone().add(vertexB) * 0.5 is taken from the blended vertex
RECURSIVE Smooth(_, _, _)
Smooth(blendedVertex, vertexB, iterations) ==
    IF iterations <= 0 THEN blendedVertex
    ELSE Smooth(Lerp(blendedVertex,
                     Lerp(blendedVertex, vertexB, Half),
                     Rat(1, 10)),
                vertexB, iterations - 1)

\* one pass of the vertex loop
BlendVertex(vertexA, vertexB, mergerProgress, ps) ==
    LET blendFactor == calculateBlendingFactor(mergerProgress)
        easedBlendFactor == easeInOutCubic(blendFactor)
    IN  Smooth(Lerp(vertexA, vertexB, RatMul(easedBlendFactor, ps.blendingIntensity)),
               vertexB, ps.smoothingIterations)

performFluidBlending(verticesA, verticesB, mergerProgress, ps) ==
    LET maxVertexCount == Max(VertexCount(verticesA), VertexCount(verticesB))
    IN  [i \in 0..(maxVertexCount - 1) |->
            BlendVertex(SampleVertex(verticesA, i, maxVertexCount),
                        SampleVertex(verticesB, i, maxVertexCount),
                        mergerProgress, ps)]

\* sine and cosine of k quarter turns
SinQ(k) == CASE k % 4 = 0 -> 0 [] k % 4 = 1 -> 1 [] k % 4 = 2 -> 0 [] OTHER -> -1

CosQ(k) == SinQ(k + 1)

\* generateTestKleinBottleVertices(scale) on a grid whose angles are whole
\* quarter turns: uParam / 2 = 2 * u quarter turns (uSegments = 1),
\* vParam = v * (4 / vSegments) quarter turns
TestVertex(u, v, vSegments, scale) ==
    LET uh == 2 * u
        vq == v * (4 \div vSegments)
        r == 2 + CosQ(uh) * SinQ(vq) - SinQ(uh) * SinQ(2 * vq)
    IN  <<RatMul(Rat(r * CosQ(2 * uh), 1), scale),
          RatMul(Rat(r * SinQ(2 * uh), 1), scale),
          RatMul(Rat(SinQ(uh) * SinQ(vq) + CosQ(uh) * SinQ(2 * vq), 1), scale)>>

generateTestKleinBottleVertices(vSegments, scale) ==
    [i \in 0..(2 * (vSegments + 1) - 1) |->
        TestVertex(i \div (vSegments + 1), i % (vSegments + 1), vSegments, scale)]

\* Math.sqrt(dx * dx + dy * dy + dz * dz) of a difference along one axis
AxisLength(d) ==
    CASE d[2] = Zero /\ d[3] = Zero -> RatAbs(d[1])
      [] d[1] = Zero /\ d[3] = Zero -> RatAbs(d[2])
      [] d[1] = Zero /\ d[2] = Zero -> RatAbs(d[3])

RECURSIVE SumDisplacement(_, _, _)
SumDisplacement(bufA, bufB, n) ==
    IF n = 0 THEN Zero
    ELSE RatAdd(SumDisplacement(bufA, bufB, n - 1),
                AxisLength(<<RatSub(bufA[n - 1][1], bufB[n - 1][1]),
                             RatSub(bufA[n - 1][2], bufB[n - 1][2]),
                             RatSub(bufA[n - 1][3], bufB[n - 1][3])>>))

calculateAverageVertexDisplacement(bufA, bufB) ==
    LET vertexCount == Min(VertexCount(bufA), VertexCount(bufB))
    IN  IF vertexCount > 0
        THEN RatDiv(SumDisplacement(bufA, bufB, vertexCount), Rat(vertexCount, 1))
        ELSE Zero

\* the blending fields of DEFAULT_FLUID_DYNAMICS_PARAMS
DefaultBlendParams == [blendingIntensity |-> Rat(3, 5), smoothingIterations |-> 3]

BlendParamInputs ==
    {DefaultBlendParams, [blendingIntensity |-> Rat(1, 1), smoothingIterations |-> 0]}

\* vertices of the buffers of unequal length
BufferVertices == {<<Rat(3, 1), Zero, Zero>>, <<Rat(-9, 2), Zero, Zero>>}

Buffers == UNION {[0..(n - 1) -> BufferVertices] : n \in 0..MaxVerts}

\* merger progress below, inside and above 0..1
ProgressInputs == {Rat(-1, 1), Zero, Half, One, Rat(2, 1)}

\* the surfaces of testFluidBlending: scale 1.0 and scale 1.5
TestSurfaceInputs ==
    {[fn |-> "performFluidBlending",
      verticesA |-> generateTestKleinBottleVertices(vs, One),
      verticesB |-> generateTestKleinBottleVertices(vs, Rat(3, 2)),
      mergerProgress |-> p,
      params |-> ps,
      test |-> TRUE] : vs \in {1, 2, 4}, p \in ProgressInputs, ps \in BlendParamInputs}

BlendInputs ==
    TestSurfaceInputs \cup
    {[fn |-> "performFluidBlending",
      verticesA |-> a, verticesB |-> b, mergerProgress |-> p,
      params |-> DefaultBlendParams,
      test |-> FALSE] : a \in Buffers, b \in Buffers, p \in {Zero, Half, One}}

InitBlend ==
    /\ DriverIdle
    /\ InitProxIdle
    /\ call \in BlendInputs
    /\ ret = <<>>
    /\ pcCall = "input"
    /\ engine = NoEngine
    /\ history = <<>>

performFluidBlendingCall ==
    /\ pcCall = "input"
    /\ call.fn = "performFluidBlending"
    /\ ret' = performFluidBlending(call.verticesA, call.verticesB,
                                   call.mergerProgress, call.params)
    /\ pcCall' = "done"
    /\ UNCHANGED <<call, engine, history>>
    /\ UNCHANGED <<driverVars, proxVars>>

NextBlend == performFluidBlendingCall

\* one call of performFluidBlending on every drawn input
SpecBlend == InitBlend /\ [][NextBlend]_vars

(***************************************************************************)
(* Part 4: the necking bridges of a render                                 *)
(***************************************************************************)
\* initialPositions of the currentPositions memo
InitialPositions == <<<<-3, -2, 0>>, <<3, -2, 0>>, <<0, 3, 0>>>>

\* progress values are whole hundredths, lengths are in hundredths
Hundred == 100

\* initialPositions.map(pos => pos.clone().lerp(finalPosition, progress)),
\* in hundredths, for a progress of p hundredths
currentPositions(p) ==
    [i \in 1..NumAnchors |->
        <<InitialPositions[i][1] * (Hundred - p),
          InitialPositions[i][2] * (Hundred - p),
          InitialPositions[i][3] * (Hundred - p)>>]

\* the pairs of the loops for (i ...) for (j = i + 1 ...)
Pairs == {ij \in (1..NumAnchors) \X (1..NumAnchors) : ij[1] < ij[2]}

\* the square of currentPositions[i].distanceTo(currentPositions[j])
PairDistanceSq(pos, ij) == LengthSq(VecSub(pos[ij[1]], pos[ij[2]]))

\* distance < c, for the square of a distance in hundredths
DistanceLess(dsq, c) ==
    c.n > 0 /\ dsq * c.d * c.d < Hundred * Hundred * c.n * c.n

\* distance <= c
DistanceAtMost(dsq, c) ==
    c.n >= 0 /\ dsq * c.d * c.d <= Hundred * Hundred * c.n * c.n

\* avgDistance <= prox for the anchors at progress p: their distances are
\* 6 (1 - p) once and sqrt(34) (1 - p) twice, so the test is
\* 2 sqrt(34) (1 - p) <= 3 prox - 6 (1 - p)
AvgDistanceAtMost(p, prox) ==
    LET q == Hundred - p
        rest == 3 * Hundred * prox.n - 6 * q * prox.d
    IN  rest >= 0 /\ 4 * 34 * q * q * prox.d * prox.d <= rest * rest

\* frameRef.current / 100
AnimationProgress(frame) == Rat(frame, LiteralTotalFrames)

\* fluid variant: distance < 4.0 * (1 + blendingIntensity)
FluidCutoff(blendingIntensity) == RatMul(Rat(4, 1), RatAdd(One, blendingIntensity))

\* fluid variant: animationProgress > 0.3
FluidActivation == Rat(3, 10)

\* enhanced variant: distance < 5.0
NeckingCutoff == Rat(5, 1)

\* typeof dsimProximityThreshold === 'number' ? dsimProximityThreshold : 1.5
LocalityThreshold(dsim) == IF dsim.defined THEN dsim.value ELSE Rat(3, 2)

\* 0.2 + 0.6 * clamp((prox - 0.5) / (3.0 - 0.5))
NeckingStart(prox) ==
    LET proxNorm == RatMax(Zero, RatMin(One, RatDiv(RatSub(prox, Half), Rat(5, 2))))
    IN  RatAdd(Rat(1, 5), RatMul(Rat(3, 5), proxNorm))

\* some pair is at most the locality threshold apart
IsTouching(pos, prox) ==
    \E ij \in Pairs : DistanceAtMost(PairDistanceSq(pos, ij), prox)

\* renderFluidBlendingBridges / renderNeckingBridges: the pairs below the cutoff
BridgesBelow(pos, cutoff) ==
    {ij \in Pairs : DistanceLess(PairDistanceSq(pos, ij), cutoff)}

\* a render that draws the bridges of every pair below the cutoff at any progress
BridgesUngated(c) ==
    LET pos == currentPositions(c.progress)
    IN  CASE c.variant = "Fluid" ->
                 IF c.showNecking THEN BridgesBelow(pos, FluidCutoff(c.blendingIntensity))
                 ELSE {}
          [] c.variant = "Enhanced" ->
                 IF c.showNecking THEN BridgesBelow(pos, NeckingCutoff) ELSE {}
          [] OTHER -> {}

\* the bridges a render leaves in the necking group: the group is cleared,
\* then the gate of the variant decides whether the pair loop runs
Bridges(c) ==
    LET pos == currentPositions(c.progress)
        animationProgress == AnimationProgress(c.frame)
        prox == LocalityThreshold(c.dsimProximityThreshold)
    IN  CASE c.variant = "Fluid" ->
                 IF c.showNecking /\ RatLess(FluidActivation, animationProgress)
                 THEN BridgesBelow(pos, FluidCutoff(c.blendingIntensity))
                 ELSE {}
          [] c.variant = "Enhanced" ->
                 IF /\ c.showNecking
                    /\ IsTouching(pos, prox)
                    /\ RatLess(NeckingStart(prox), animationProgress)
                    /\ AvgDistanceAtMost(c.progress, prox)
                 THEN BridgesBelow(pos, NeckingCutoff)
                 ELSE {}
          [] OTHER -> {}

DsimUndefined == [defined |-> FALSE, value |-> Zero]

\* the dsimProximityThreshold prop: omitted, or a number
DsimInputs ==
    {DsimUndefined} \cup
    {[defined |-> TRUE, value |-> v] : v \in {Half, Rat(3, 2), Rat(3, 1), Rat(7, 1)}}

\* frames on both sides of the activation thresholds
FrameInputs == {0, 20, 21, 30, 31, 44, 45, 80, 81, 99}

\* progress of the memo in hundredths, on both sides of the cutoffs
MemoProgressInputs == {0, 16, 17, 33, 34, 50, 74, 75, 100}

RenderInputs ==
    [fn : {"render"},
     variant : Variants,
     frame : FrameInputs,
     progress : MemoProgressInputs,
     showNecking : BOOLEAN,
     blendingIntensity : {Zero, Rat(3, 5), One},
     dsimProximityThreshold : DsimInputs]

InitBridge ==
    /\ DriverIdle
    /\ InitProxIdle
    /\ call \in RenderInputs
    /\ ret = <<>>
    /\ pcCall = "input"
    /\ engine = NoEngine
    /\ history = <<>>

renderCall ==
    /\ pcCall = "input"
    /\ call.fn = "render"
    /\ ret' = Bridges(call)
    /\ pcCall' = "done"
    /\ UNCHANGED <<call, engine, history>>
    /\ UNCHANGED <<driverVars, proxVars>>

NextBridge == renderCall

\* one render of every variant on every drawn frame, memo and setting
SpecBridge == InitBridge /\ [][NextBridge]_vars

\* const bridgeRadius of the pair loops, for a progress of c.progress
\* hundredths: 0.1 * (1 - progress * 0.3) * (1 + softness * 0.5) in
\* renderFluidBlendingBridges, 0.1 * (1 - progress * 0.7) * neckingStrength *
\* (0.8 + 0.4 * ccpScale) in renderNeckingBridges, where ccpScale is
\* isColorNeutral ? 1.0 : 0.6
BridgeRadius(c) ==
    LET prog == Rat(c.progress, Hundred)
        ccpScale == IF c.isColorNeutral THEN One ELSE Rat(3, 5)
    IN  IF c.variant = "Fluid"
        THEN RatMul(RatMul(Rat(1, 10), RatSub(One, RatMul(prog, Rat(3, 10)))),
                    RatAdd(One, RatMul(c.softness, Half)))
        ELSE RatMul(RatMul(RatMul(Rat(1, 10), RatSub(One, RatMul(prog, Rat(7, 10)))),
                           c.neckingStrength),
                    RatAdd(Rat(4, 5), RatMul(Rat(2, 5), ccpScale)))

\* renders with the bridges switched on, late in the animation, for the
\* softness, neckingStrength and colour neutrality the radius depends on
BridgeRenderInputs ==
    [fn : {"renderBridges"},
     variant : Variants,
     frame : {45, 99},
     progress : {0, 16, 17, 33, 34, 50},
     showNecking : {TRUE},
     blendingIntensity : {Rat(3, 5)},
     dsimProximityThreshold : {DsimUndefined, [defined |-> TRUE, value |-> Rat(7, 1)]},
     softness : {Zero, Rat(3, 5)},
     neckingStrength : {Rat(3, 10), One},
     isColorNeutral : BOOLEAN]

InitRadius ==
    /\ DriverIdle
    /\ InitProxIdle
    /\ call \in BridgeRenderInputs
    /\ ret = <<>>
    /\ pcCall = "input"
    /\ engine = NoEngine
    /\ history = <<>>

\* the bridge meshes a render adds to the necking group, each with the
\* radius of its geometry
renderBridgesCall ==
    /\ pcCall = "input"
    /\ call.fn = "renderBridges"
    /\ ret' = [ij \in Bridges(call) |-> BridgeRadius(call)]
    /\ pcCall' = "done"
    /\ UNCHANGED <<call, engine, history>>
    /\ UNCHANGED <<driverVars, proxVars>>

NextRadius == renderBridgesCall

\* one render of every variant for every drawn progress and parameter
SpecRadius == InitRadius /\ [][NextRadius]_vars

(***************************************************************************)
(* Part 5: ColorConfinementEngine.calculateBordismClass                    *)
(***************************************************************************)
\* h.theta of an up quark at progress 0.0075, 0 and 0.5, in units of 1/10000
UpThetaInputs == {21938, 21944, 21544}

\* h.theta of a down quark at progress 0
DownTheta == 41388

\* the thetas of the holonomies of a u-d-d content
HolonomyInputs == {<<t, DownTheta, DownTheta>> : t \in UpThetaInputs}

\* the results of verifyPinMinusCondition for the three quarks
PinMinusInputs == [1..NumAnchors -> BOOLEAN]

\* theta.toFixed(3): a theta in 1/10000 rounded to thousandths
ToFixed3(t) == (t + 5) \div 10

\* holonomies.map(h => h.theta.toFixed(3)).join('-')
BordismKey(holonomies) == [i \in DOMAIN holonomies |-> ToFixed3(holonomies[i])]

\* new Map()
EmptyMap == [k \in {} |-> 0]

\* Map.set
MapSet(m, k, v) == [x \in DOMAIN m \cup {k} |-> IF x = k THEN v ELSE m[x]]

\* pinMinusValid.filter(valid => valid).length
ValidPinMinusCount(pinMinusValid) ==
    Cardinality({i \in DOMAIN pinMinusValid : pinMinusValid[i]})

\* the singleton after construction
NewConfinementEngine == [instance |-> "ColorConfinementEngine",
                         holonomyCache |-> EmptyMap,
                         pinMinusVerification |-> EmptyMap,
                         bordismClassification |-> EmptyMap]

InitBordism ==
    /\ DriverIdle
    /\ InitProxIdle
    /\ call = [fn |-> "none"]
    /\ ret = <<>>
    /\ pcCall = "idle"
    /\ engine = NewConfinementEngine
    /\ history = <<>>

calculateBordismClass(holonomies, pinMinusValid) ==
    LET key == BordismKey(holonomies)
        bordismClass == ValidPinMinusCount(pinMinusValid) % 2
    IN  /\ call' = [fn |-> "calculateBordismClass",
                    holonomies |-> holonomies,
                    pinMinusValid |-> pinMinusValid]
        /\ IF key \in DOMAIN engine.bordismClassification
           THEN /\ ret' = engine.bordismClassification[key]
                /\ UNCHANGED engine
           ELSE /\ ret' = bordismClass
                /\ engine' = [engine EXCEPT !.bordismClassification =
                                 MapSet(engine.bordismClassification, key, bordismClass)]
        /\ pcCall' = "done"
        /\ UNCHANGED history
        /\ UNCHANGED <<driverVars, proxVars>>

clearCaches ==
    /\ call' = [fn |-> "clearCaches"]
    /\ ret' = <<>>
    /\ engine' = [engine EXCEPT !.holonomyCache = EmptyMap,
                                !.pinMinusVerification = EmptyMap,
                                !.bordismClassification = EmptyMap]
    /\ pcCall' = "done"
    /\ UNCHANGED history
    /\ UNCHANGED <<driverVars, proxVars>>

NextBordism ==
    \/ \E holonomies \in HolonomyInputs, pinMinusValid \in PinMinusInputs :
           calculateBordismClass(holonomies, pinMinusValid)
    \/ clearCaches

\* any sequence of calls on the one ColorConfinementEngine instance
SpecBordism == InitBordism /\ [][NextBordism]_vars

(***************************************************************************)
(* Part 6: the edge cases of calculateProximityPhysics and                 *)
(* computePairwiseDeformationVectors                                       *)
(***************************************************************************)
\* Math.exp(-x) for x >= 0, to the third order of 1 / exp(x)
ExpNeg(x) ==
    RatDiv(One,
           RatAdd(RatAdd(One, x),
                  RatAdd(RatMul(Pow(x, 2), Half), RatMul(Pow(x, 3), Rat(1, 6)))))

\* distance > 0.001
MinDeformDistance == Rat(1, 1000)

\* what one quark adds to totalDeformation
QuarkDeformation(vertex, quarkPos, quarkIndex, ps) ==
    LET distance == DistanceTo(vertex, quarkPos)
        direction == VecSub(quarkPos, vertex)
        influence == RatMul(RatMul(ps.proximityInfluence,
                                   ExpNeg(RatDiv(Rat(distance, 1), ps.proximityThreshold))),
                            Pow(ps.forceDecayRate, distance))
        forceMagnitude ==
            CASE quarkIndex % 3 = 0 -> RatMul(influence, Rat(-4, 5))
              [] quarkIndex % 3 = 1 -> RatMul(influence, Rat(3, 5))
              [] OTHER -> RatMul(influence, Rat(-2, 5))
        tangent ==
            IF quarkIndex % 3 = 2
            THEN MultiplyScalar(Normalize(<<-direction[2], direction[1], 0>>),
                                RatMul(influence, Rat(3, 10)))
            ELSE ZeroVector
    IN  IF /\ RatLess(Rat(distance, 1), ps.proximityThreshold)
           /\ RatLess(MinDeformDistance, Rat(distance, 1))
        THEN VecAdd(tangent, MultiplyScalar(Normalize(direction), forceMagnitude))
        ELSE ZeroVector

\* quarkPositions.forEach over the first n quarks (quarkIndex = n - 1 last)
RECURSIVE TotalDeformation(_, _, _, _)
TotalDeformation(vertex, quarkPositions, n, ps) ==
    IF n = 0 THEN ZeroVector
    ELSE VecAdd(TotalDeformation(vertex, quarkPositions, n - 1, ps),
                QuarkDeformation(vertex, quarkPositions[n], n - 1, ps))

computePairwiseDeformationVectors(vertices, quarkPositions, ps) ==
    [i \in DOMAIN vertices |->
        MultiplyScalar(TotalDeformation(vertices[i], quarkPositions,
                                        Len(quarkPositions), ps),
                       ps.viscosityFactor)]

\* calculateProximityPhysics on an array of any length
ProximityMatrix(pos, ps) ==
    [ij \in {kl \in (DOMAIN pos) \X (DOMAIN pos) : kl[1] # kl[2]} |->
        ProximityResult(pos, ps, ij[1], ij[2])]

Origin == <<0, 0, 0>>

\* an anchor 1000 units from the origin
FarAnchor == <<1000, 0, 0>>

\* the position arrays of the edge cases: coincident anchors, far anchors
EdgePositionInputs == {<<Origin, Origin>>, <<Origin, FarAnchor>>}

\* the vertex buffers of the edge cases: empty, or a single vertex
EdgeVertexInputs == {<<>>} \cup {<<v>> : v \in {Origin, <<1, 0, 0>>, <<0, 0, 1>>}}

\* one to three quarks at the origin, next to it or far from it
EdgeQuarkInputs ==
    UNION {[1..n -> {Origin, <<0, 0, 1>>, FarAnchor}] : n \in 1..NumAnchors}

\* ParamInputs with the viscosityFactor computePairwiseDeformationVectors reads
DeformParamInputs ==
    {[proximityThreshold |-> ps.proximityThreshold,
      proximityInfluence |-> ps.proximityInfluence,
      forceDecayRate |-> ps.forceDecayRate,
      viscosityFactor |-> v] : ps \in ParamInputs, v \in {Zero, Rat(2, 5)}}

\* the buffers and quarks whose distances are whole numbers
WholeDistances(vertices, quarkPositions) ==
    \A i \in DOMAIN vertices, k \in DOMAIN quarkPositions :
        LET direction == VecSub(quarkPositions[k], vertices[i])
        IN  /\ IsSquare(LengthSq(direction))
            /\ IsSquare(LengthSq(<<-direction[2], direction[1], 0>>))

EdgeInputs ==
    {[fn |-> "calculateProximityPhysics", positions |-> pos, params |-> ps] :
        pos \in EdgePositionInputs, ps \in ParamInputs}
    \cup
    {c \in [fn : {"computePairwiseDeformationVectors"},
            vertices : EdgeVertexInputs,
            quarkPositions : EdgeQuarkInputs,
            params : DeformParamInputs] :
        WholeDistances(c.vertices, c.quarkPositions)}

InitEdge ==
    /\ DriverIdle
    /\ InitProxIdle
    /\ call \in EdgeInputs
    /\ ret = <<>>
    /\ pcCall = "input"
    /\ engine = NoEngine
    /\ history = <<>>

calculateProximityPhysicsCall ==
    /\ pcCall = "input"
    /\ call.fn = "calculateProximityPhysics"
    /\ ret' = ProximityMatrix(call.positions, call.params)
    /\ pcCall' = "done"
    /\ UNCHANGED <<call, engine, history>>
    /\ UNCHANGED <<driverVars, proxVars>>

computePairwiseDeformationVectorsCall ==
    /\ pcCall = "input"
    /\ call.fn = "computePairwiseDeformationVectors"
    /\ ret' = computePairwiseDeformationVectors(call.vertices, call.quarkPositions,
                                                call.params)
    /\ pcCall' = "done"
    /\ UNCHANGED <<call, engine, history>>
    /\ UNCHANGED <<driverVars, proxVars>>

NextEdge ==
    \/ calculateProximityPhysicsCall
    \/ computePairwiseDeformationVectorsCall

\* one call of either operation on every drawn edge case
SpecEdge == InitEdge /\ [][NextEdge]_vars

(***************************************************************************)
(* Part 7: the fluid dynamics parameters of the visualization context      *)
(***************************************************************************)
\* the tunables of the model
TunableKeys == {"proximityThreshold", "proximityInfluence", "forceDecayRate"}

\* values a caller of updateParam can pass
TunableInputs == {Rat(-1, 1), Zero, Rat(7, 10), Rat(2, 1)}

\* the provider after construction
NewVisualizationProvider ==
    [instance |-> "VisualizationProvider", fluidDynamicsParams |-> DefaultParams]

InitConfig ==
    /\ DriverIdle
    /\ InitProxIdle
    /\ call = [fn |-> "none"]
    /\ ret = <<>>
    /\ pcCall = "idle"
    /\ engine = NewVisualizationProvider
    /\ history = <<>>

\* setState(prev => ({ ...prev, fluidDynamicsParams: params }))
setFluidDynamicsParams(ps) ==
    /\ engine' = [engine EXCEPT !.fluidDynamicsParams = ps]
    /\ UNCHANGED <<call, ret, pcCall, history>>
    /\ UNCHANGED <<driverVars, proxVars>>

\* onParamsChange({ ...params, [key]: value })
updateParam(key, value) ==
    setFluidDynamicsParams([engine.fluidDynamicsParams EXCEPT ![key] = value])

resetToDefaults == setFluidDynamicsParams(DefaultParams)

\* a frame of the pipeline: the deformation pass reads fluidDynamicsParams
renderFluidDynamics ==
    /\ call' = [fn |-> "computePairwiseDeformationVectors",
                params |-> engine.fluidDynamicsParams]
    /\ ret' = <<>>
    /\ pcCall' = "done"
    /\ UNCHANGED <<engine, history>>
    /\ UNCHANGED <<driverVars, proxVars>>

NextConfig ==
    \/ \E key \in TunableKeys, value \in TunableInputs : updateParam(key, value)
    \/ resetToDefaults
    \/ renderFluidDynamics

\* the setters of the context and the frames that read what they stored
SpecConfig == InitConfig /\ [][NextConfig]_vars

(***************************************************************************)
(* Part 8: the vertex buffer of a Klein bottle                             *)
(***************************************************************************)
\* largest grid resolution the model draws (the code uses 30 and 50)
MaxSegments == 3

\* one coordinate of the surface point of grid node (u, v) of a particle
Coordinate(axis, u, v, particle) ==
    [axis |-> axis, u |-> u, v |-> v, particle |-> particle, warped |-> FALSE]

\* a vertex loop that stops one column short: for (v = 0; v < vSegments; v++)
RECURSIVE PushRowShort(_, _, _, _, _)
PushRowShort(vertices, u, v, vSegments, particle) ==
    IF v >= vSegments THEN vertices
    ELSE PushRowShort(vertices \o <<Coordinate("x", u, v, particle),
                                    Coordinate("y", u, v, particle),
                                    Coordinate("z", u, v, particle)>>,
                      u, v + 1, vSegments, particle)

\* for (let v = 0; v <= vSegments; v++) vertices.push(point.x, point.y, point.z)
RECURSIVE PushRow(_, _, _, _, _)
PushRow(vertices, u, v, vSegments, particle) ==
    IF v > vSegments THEN vertices
    ELSE PushRow(vertices \o <<Coordinate("x", u, v, particle),
                               Coordinate("y", u, v, particle),
                               Coordinate("z", u, v, particle)>>,
                 u, v + 1, vSegments, particle)

\* for (let u = 0; u <= uSegments; u++)
RECURSIVE PushGrid(_, _, _, _, _)
PushGrid(vertices, u, uSegments, vSegments, particle) ==
    IF u > uSegments THEN vertices
    ELSE PushGrid(PushRow(vertices, u, 0, vSegments, particle),
                  u + 1, uSegments, vSegments, particle)

\* applyTimeVaryingWarping: a new Float32Array(vertices.length) whose first
\* vertices.length / 3 triples are the warped vertices
applyTimeVaryingWarping(vertices) ==
    [k \in 1..Len(vertices) |->
        IF (k - 1) \div 3 < Len(vertices) \div 3
        THEN [vertices[k] EXCEPT !.warped = TRUE]
        ELSE [axis |-> "none", u |-> 0, v |-> 0, particle |-> 0, warped |-> FALSE]]

\* the position attribute a render gives the geometry of one particle
VertexBuffer(c) ==
    LET vertices == PushGrid(<<>>, 0, c.uSegments, c.vSegments, c.particle)
    IN  IF c.variant = "Fluid" /\ c.showFluidDynamics
        THEN applyTimeVaryingWarping(vertices)
        ELSE vertices

\* grids of every shape up to the bound
SegmentInputs == (1..MaxSegments) \X (1..MaxSegments)

SurfaceInputs ==
    {[fn |-> "renderKleinBottles",
      variant |-> v,
      uSegments |-> seg[1],
      vSegments |-> seg[2],
      particle |-> i,
      showFluidDynamics |-> fd] :
        v \in Variants, seg \in SegmentInputs, i \in 1..NumAnchors, fd \in BOOLEAN}

InitSurface ==
    /\ DriverIdle
    /\ InitProxIdle
    /\ call \in SurfaceInputs
    /\ ret = <<>>
    /\ pcCall = "input"
    /\ engine = NoEngine
    /\ history = <<>>

renderKleinBottles ==
    /\ pcCall = "input"
    /\ call.fn = "renderKleinBottles"
    /\ ret' = VertexBuffer(call)
    /\ pcCall' = "done"
    /\ UNCHANGED <<call, engine, history>>
    /\ UNCHANGED <<driverVars, proxVars>>

NextSurface == renderKleinBottles

\* the geometry of one particle in one frame of every variant
SpecSurface == InitSurface /\ [][NextSurface]_vars

(***************************************************************************)
(* Part 9: SimplePerlinNoise and generateFluidKleinBottleSurface           *)
(***************************************************************************)
\* number of calls made on one engine instance
MaxCalls == 3

\* shuffles the Fisher-Yates loop of the constructor can end in
ShuffleInputs ==
    {[i \in 0..255 |-> i],
     [i \in 0..255 |-> 255 - i],
     [i \in 0..255 |-> (7 * i + 3) % 256]}

\* "Extend to avoid wrapping": permutation[256 + i] = permutation[i]
ExtendPermutation(p) == [i \in 0..511 |-> p[i % 256]]

\* Math.floor
Floor(a0) == CHOOSE k \in {a.n \div a.d : a \in {a0}} : TRUE

\* t * t * t * (t * (t * 6 - 15) + 10)
fade(t0) ==
    CHOOSE q \in
        {RatMul(Pow(t, 3),
                RatAdd(RatMul(t, RatSub(RatMul(t, Rat(6, 1)), Rat(15, 1))), Rat(10, 1))) :
            t \in {t0}} : TRUE

\* a + t * (b - a)
lerp(a0, b, t) == CHOOSE q \in {RatAdd(a, RatMul(t, RatSub(b, a))) : a \in {a0}} : TRUE

RatNeg(a) == [n |-> -a.n, d |-> a.d]

grad(hash, x, y, z) ==
    CHOOSE q \in
        {LET u == IF h < 8 THEN x ELSE y
             v == IF h < 4 THEN y ELSE IF h = 12 \/ h = 14 THEN x ELSE z
         IN  RatAdd(IF h % 2 = 0 THEN u ELSE RatNeg(u),
                    IF (h \div 2) % 2 = 0 THEN v ELSE RatNeg(v)) :
            h \in {hash % 16}} : TRUE

\* the arguments are values when the body runs
noise3D(permutation, xin, yin, zin) ==
    CHOOSE n \in
        {LET X == Floor(x0) % 256
             Y == Floor(y0) % 256
             Z == Floor(z0) % 256
             x == RatSub(x0, Rat(Floor(x0), 1))
             y == RatSub(y0, Rat(Floor(y0), 1))
             z == RatSub(z0, Rat(Floor(z0), 1))
             x1 == RatSub(x, One)
             y1 == RatSub(y, One)
             z1 == RatSub(z, One)
             u == fade(x)
             v == fade(y)
             w == fade(z)
             A == permutation[X] + Y
             AA == permutation[A] + Z
             AB == permutation[A + 1] + Z
             B == permutation[X + 1] + Y
             BA == permutation[B] + Z
             BB == permutation[B + 1] + Z
         IN  lerp(lerp(lerp(grad(permutation[AA], x, y, z),
                            grad(permutation[BA], x1, y, z), u),
                       lerp(grad(permutation[AB], x, y1, z),
                            grad(permutation[BB], x1, y1, z), u),
                       v),
                  lerp(lerp(grad(permutation[AA + 1], x, y, z1),
                            grad(permutation[BA + 1], x1, y, z1), u),
                       lerp(grad(permutation[AB + 1], x, y1, z1),
                            grad(permutation[BB + 1], x1, y1, z1), u),
                       v),
                  w) :
            x0 \in {xin}, y0 \in {yin}, z0 \in {zin}} : TRUE

\* a noise3D that does not mask the z lattice coordinate with "& 255"
PermutationReadsUnmasked(permutation, xin, yin, zin) ==
    LET X == Floor(xin) % 256
        Y == Floor(yin) % 256
        Z == Floor(zin)
        A == permutation[X] + Y
        AA == permutation[A] + Z
        AB == permutation[A + 1] + Z
        B == permutation[X + 1] + Y
        BA == permutation[B] + Z
        BB == permutation[B + 1] + Z
    IN  {X, X + 1, A, A + 1, B, B + 1, AA, AB, BA, BB, AA + 1, AB + 1, BA + 1, BB + 1}

\* the indices at which noise3D reads this.permutation
PermutationReads(permutation, xin, yin, zin) ==
    LET X == Floor(xin) % 256
        Y == Floor(yin) % 256
        Z == Floor(zin) % 256
        A == permutation[X] + Y
        AA == permutation[A] + Z
        AB == permutation[A + 1] + Z
        B == permutation[X + 1] + Y
        BA == permutation[B] + Z
        BB == permutation[B + 1] + Z
    IN  {X, X + 1, A, A + 1, B, B + 1, AA, AB, BA, BB, AA + 1, AB + 1, BA + 1, BB + 1}

\* Vector3.sub on fractions
RatVecSub(a, b) == <<RatSub(a[1], b[1]), RatSub(a[2], b[2]), RatSub(a[3], b[3])>>

\* Vector3.normalize on a vector along one axis
RatNormalize(a) ==
    LET len == AxisLength(a)
        div == IF len = Zero THEN One ELSE len
    IN  <<RatDiv(a[1], div), RatDiv(a[2], div), RatDiv(a[3], div)>>

\* the interaction_vecs.forEach of generateFluidKleinBottleSurface over the
\* first n vectors: vec.clone().sub(position) leaves vec as it is
RECURSIVE ApplyInteractions(_, _, _, _)
ApplyInteractions(position, vecs, n, dynamic_deform) ==
    IF n = 0 THEN position
    ELSE CHOOSE moved \in
        {LET vec == vecs[n]
             influence ==
                 RatMul(ExpNeg(RatMul(AxisLength(RatVecSub(p, vec)), Half)),
                        dynamic_deform)
             direction == RatNormalize(RatVecSub(vec, p))
         IN  IF vec # ZeroVector
             THEN VecAdd(p, MultiplyScalar(direction, RatMul(influence, Rat(1, 5))))
             ELSE p :
            p \in {ApplyInteractions(position, vecs, n - 1, dynamic_deform)}} : TRUE

RECURSIVE SumBulging(_, _, _, _)
SumBulging(position, vecs, n, intensity) ==
    IF n = 0 THEN Zero
    ELSE LET rest == SumBulging(position, vecs, n - 1, intensity)
             distance == AxisLength(RatVecSub(position, vecs[n]))
             closenessInfluence ==
                 RatMul(ExpNeg(RatMul(distance, Rat(2, 1))), intensity)
         IN  IF vecs[n] # ZeroVector
             THEN RatAdd(rest, RatMul(closenessInfluence, Rat(3, 20)))
             ELSE rest

\* a calculateLocalBulging without the cap
calculateLocalBulgingUncapped(position, interactionVecs, intensity) ==
    SumBulging(position, interactionVecs, Len(interactionVecs), intensity)

calculateLocalBulging(position, interactionVecs, intensity) ==
    RatMin(SumBulging(position, interactionVecs, Len(interactionVecs), intensity),
           RatMul(intensity, Rat(3, 10)))

\* the steps of generateFluidKleinBottleSurface in the order of the code: the
\* vectors it adds to position, the factor it scales position by, and
\* position as the function returns it. The angles u, v and rotationAngle
\* are whole quarter turns (u an even number of them), wigglePhase and time
\* are 0. "vec && vec.length() > 0" is "vec is not the zero vector".
DeformationSteps(permutation, c) ==
    LET r == 2 + CosQ(c.u \div 2) * SinQ(c.v) - SinQ(c.u \div 2) * SinQ(2 * c.v)
        x0 == RatMul(Rat(r * CosQ(c.u), 1), c.scale)
        y0 == RatMul(Rat(r * SinQ(c.u), 1), c.scale)
        z0 == RatMul(Rat(SinQ(c.u \div 2) * SinQ(c.v) + CosQ(c.u \div 2) * SinQ(2 * c.v), 1),
                     c.scale)
        cosRot == Rat(CosQ(c.rotationAngle), 1)
        sinRot == Rat(SinQ(c.rotationAngle), 1)
        base == IF c.rotationAngle # 0
                THEN <<RatSub(RatMul(x0, cosRot), RatMul(y0, sinRot)),
                       RatAdd(RatMul(x0, sinRot), RatMul(y0, cosRot)),
                       z0>>
                ELSE <<x0, y0, z0>>
        dd == c.dynamic_deform
        sineDistortion ==
            IF RatLess(Zero, dd)
            THEN <<RatMul(Rat(SinQ(3 * c.u), 1), RatMul(dd, Rat(3, 10))),
                   RatMul(Rat(CosQ(2 * c.v), 1), RatMul(dd, Rat(3, 10))),
                   RatMul(Rat(SinQ(c.u + c.v), 1), RatMul(dd, Rat(1, 5)))>>
            ELSE ZeroVector
        tensionSmoothing ==
            IF RatLess(Zero, c.tension_scalar)
            THEN <<RatMul(Rat(SinQ(c.u), 1), RatMul(c.tension_scalar, Rat(1, 10))),
                   RatMul(Rat(CosQ(c.v), 1), RatMul(c.tension_scalar, Rat(1, 10))),
                   Zero>>
            ELSE ZeroVector
        wiggleDeformation ==
            <<RatMul(Rat(SinQ(c.wigglePhase), 1), RatMul(dd, Rat(1, 5))),
              RatMul(Rat(CosQ(c.wigglePhase), 1), RatMul(dd, Rat(1, 5))),
              RatMul(Rat(SinQ(c.wigglePhase), 1), RatMul(dd, Rat(3, 20)))>>
        distorted == VecAdd(base, sineDistortion)
    IN  CHOOSE steps \in UNION
        {{LET noiseValue ==
                  noise3D(permutation,
                          RatMul(RatAdd(position[1], c.noiseOffset[1]), Half),
                          RatMul(RatAdd(position[2], c.noiseOffset[2]), Half),
                          RatAdd(RatMul(RatAdd(position[3], c.noiseOffset[3]), Half),
                                 RatMul(c.time, Rat(3, 10))))
              noiseDeformation ==
                  <<RatMul(noiseValue, RatMul(dd, Rat(2, 5))),
                    RatMul(noise3D(permutation,
                                   RatMul(position[1], Rat(3, 10)),
                                   RatMul(position[2], Rat(3, 10)),
                                   RatMul(c.time, Half)),
                           RatMul(dd, Rat(3, 10))),
                    RatMul(noise3D(permutation,
                                   RatMul(position[3], Rat(2, 5)),
                                   RatMul(c.time, Rat(2, 5)),
                                   RatMul(position[1], Rat(1, 5))),
                           RatMul(dd, Rat(1, 5)))>>
          IN  [base |-> base,
               sineDistortion |-> sineDistortion,
               pull |-> RatVecSub(attracted, distorted),
               bulgingFactor |->
                   calculateLocalBulging(attracted, c.interaction_vecs, dd),
               tensionSmoothing |-> tensionSmoothing,
               noiseDeformation |-> noiseDeformation,
               wiggleDeformation |-> wiggleDeformation,
               offset |-> c.offset,
               position |-> VecAdd(VecAdd(VecAdd(position, noiseDeformation),
                                          wiggleDeformation), c.offset)] :
             \* position.multiplyScalar(1 + bulgingFactor), then the tension
             position \in
                 {VecAdd(MultiplyScalar(attracted,
                             RatAdd(One, calculateLocalBulging(
                                 attracted, c.interaction_vecs, dd))),
                         tensionSmoothing)}} :
          \* position after the interaction_vecs.forEach
          attracted \in {ApplyInteractions(distorted, c.interaction_vecs,
                                           Len(c.interaction_vecs), dd)}} : TRUE

\* generateFluidKleinBottleSurface returns position
generateFluidKleinBottleSurface(permutation, c) ==
    DeformationSteps(permutation, c).position

\* position, interactionVecs and intensity of calculateLocalBulging: points
\* of the x axis, up to three neighbours, intensities of [0, 1]
BulgeInputs ==
    {[fn |-> "calculateLocalBulging", position |-> <<Rat(x, 1), Zero, Zero>>,
      interactionVecs |-> vecs, intensity |-> intensity] :
        x \in {-2, 0, 1},
        vecs \in {<<>>,
                  <<ZeroVector>>,
                  <<<<One, Zero, Zero>>>>,
                  <<<<One, Zero, Zero>>, <<One, Zero, Zero>>, <<One, Zero, Zero>>>>,
                  <<<<Rat(3, 1), Zero, Zero>>, <<One, Zero, Zero>>>>,
                  <<ZeroVector, <<Rat(2, 1), Zero, Zero>>>>},
        intensity \in {Zero, Rat(1, 5), One}}

InitBulge ==
    /\ DriverIdle
    /\ InitProxIdle
    /\ call \in BulgeInputs
    /\ ret = <<>>
    /\ pcCall = "input"
    /\ engine = NoEngine
    /\ history = <<>>

\* const bulgingFactor = this.calculateLocalBulging(position, interaction_vecs,
\* dynamic_deform)
calculateLocalBulgingCall ==
    /\ pcCall = "input"
    /\ call.fn = "calculateLocalBulging"
    /\ ret' = calculateLocalBulging(call.position, call.interactionVecs, call.intensity)
    /\ pcCall' = "done"
    /\ UNCHANGED <<call, engine, history>>
    /\ UNCHANGED <<driverVars, proxVars>>

NextBulge == calculateLocalBulgingCall

\* one call of calculateLocalBulging on every drawn input
SpecBulge == InitBulge /\ [][NextBulge]_vars

\* arguments of noise3D: half, negative and largest cell coordinates, and the
\* largest magnitudes of a 32-bit integer
NoiseInputs ==
    {<<Rat(-1, 2), Half, Half>>,
     <<Rat(255, 1), Rat(511, 2), One>>,
     <<Rat(-2147483392, 1), Rat(2147483647, 1), Rat(-1000001, 2)>>}

\* v, rotationAngle (quarter turns) and interaction_vecs of the surface calls
SurfaceShapes ==
    {<<0, 0, <<>>>>,
     <<2, 2, <<ZeroVector, <<Rat(5, 1), Zero, Zero>>>>>>}

\* KleinBottleSurfaceParams that keep the arithmetic exact: no deformation,
\* no tension, time 0, interaction vectors on the x axis
UndeformedParamInputs ==
    {[u |-> 0, v |-> sh[1], scale |-> Rat(5, 3), offset |-> <<One, Zero, Zero>>,
      rotationAngle |-> sh[2], dynamic_deform |-> Zero, interaction_vecs |-> sh[3],
      tension_scalar |-> Zero, time |-> Zero,
      noiseOffset |-> <<Rat(1, 3), Zero, Zero>>, wigglePhase |-> 0] :
        sh \in SurfaceShapes}

\* the point u = 0, v = pi of a surface at deformation intensity 0.2, with one
\* neighbour and with three neighbours at the very place the point is, and a
\* scale and a tension that keep the arguments of the noise exact
DeformedParamInputs ==
    {[u |-> 0, v |-> 2, scale |-> Rat(250, 103), offset |-> <<One, Zero, Zero>>,
      rotationAngle |-> 0, dynamic_deform |-> Rat(1, 5),
      interaction_vecs |-> <<<<Rat(500, 103), Rat(3, 50), Zero>>>>,
      tension_scalar |-> Rat(309, 500), time |-> Zero,
      noiseOffset |-> ZeroVector, wigglePhase |-> 0],
     [u |-> 0, v |-> 2, scale |-> Rat(125, 53), offset |-> <<One, Zero, Zero>>,
      rotationAngle |-> 0, dynamic_deform |-> Rat(1, 5),
      interaction_vecs |-> <<<<Rat(250, 53), Rat(3, 50), Zero>>,
                             <<Rat(250, 53), Rat(3, 50), Zero>>,
                             <<Rat(250, 53), Rat(3, 50), Zero>>>>,
      tension_scalar |-> Rat(159, 250), time |-> Zero,
      noiseOffset |-> ZeroVector, wigglePhase |-> 0]}

SurfaceParamInputs == UndeformedParamInputs \cup DeformedParamInputs

\* the singleton after construction, for one outcome of the shuffle
NewFluidDynamicsEngine(shuffle) ==
    [instance |-> "FluidDynamicsEngine",
     permutation |-> ExtendPermutation(shuffle),
     deformationStates |-> EmptyMap,
     mergerStates |-> EmptyMap]

InitNoise ==
    /\ DriverIdle
    /\ InitProxIdle
    /\ call = [fn |-> "none"]
    /\ ret = <<>>
    /\ pcCall = "idle"
    /\ engine \in {NewFluidDynamicsEngine(shuffle) : shuffle \in ShuffleInputs}
    /\ history = <<>>

\* the log gets the call, its arguments as the call left them, the
\* permutation table as the call left it, and the result
Logged(c, after, result) ==
    /\ Len(history) < MaxCalls
    /\ call' = c
    /\ ret' = result
    /\ pcCall' = "done"
    /\ history' = Append(history, [call |-> c, after |-> after, ret |-> result,
                                   permutation |-> engine'.permutation])
    /\ UNCHANGED <<driverVars, proxVars>>

noise3DCall(x, y, z) ==
    LET c == [fn |-> "noise3D", x |-> x, y |-> y, z |-> z]
    IN  /\ UNCHANGED engine
        /\ Logged(c, c, noise3D(engine.permutation, x, y, z))

generateFluidKleinBottleSurfaceCall(ps) ==
    LET c == [fn |-> "generateFluidKleinBottleSurface", params |-> ps]
    IN  /\ UNCHANGED engine
        /\ Logged(c, c, generateFluidKleinBottleSurface(engine.permutation, ps))

\* a clearCaches that builds a new noise generator
clearFluidCachesReseed ==
    LET c == [fn |-> "clearCaches"]
    IN  /\ engine' = [engine EXCEPT !.permutation =
                          ExtendPermutation([i \in 0..255 |-> (5 * i + 1) % 256]),
                                    !.deformationStates = EmptyMap,
                                    !.mergerStates = EmptyMap]
        /\ Logged(c, c, <<>>)

\* FluidDynamicsEngine.clearCaches
clearFluidCaches ==
    LET c == [fn |-> "clearCaches"]
    IN  /\ engine' = [engine EXCEPT !.deformationStates = EmptyMap,
                                    !.mergerStates = EmptyMap]
        /\ Logged(c, c, <<>>)

\* another call on the same engine: a blend of two one-vertex buffers
performFluidBlendingOnEngine ==
    LET c == [fn |-> "performFluidBlending",
              verticesA |-> [i \in {0} |-> ZeroVector],
              verticesB |-> [i \in {0} |-> <<One, Zero, Zero>>],
              mergerProgress |-> Half,
              params |-> DefaultBlendParams]
    IN  /\ UNCHANGED engine
        /\ Logged(c, c, performFluidBlending(c.verticesA, c.verticesB,
                                             c.mergerProgress, c.params))

NextNoise ==
    \/ \E xyz \in NoiseInputs : noise3DCall(xyz[1], xyz[2], xyz[3])
    \/ \E ps \in SurfaceParamInputs : generateFluidKleinBottleSurfaceCall(ps)
    \/ clearFluidCaches
    \/ performFluidBlendingOnEngine

\* any sequence of calls on the one FluidDynamicsEngine instance
SpecNoise == InitNoise /\ [][NextNoise]_vars

(***************************************************************************)
(* Part 10: the ColorConfinementEngine behind useColorConfinement          *)
(*                                                                         *)
(* An angle theta = baseTheta + deltaTheta is kept as the pair of its      *)
(* exact parts: base, the multiple of pi/3 that baseTheta is, and delta,   *)
(* deltaTheta in units of 1/10^7 rad (an integer for charges in thirds and *)
(* a progress in 1/10000).  A holonomy is modelled by its theta: its       *)
(* quaternion and colorPhase are functions of theta and of its index.      *)
(***************************************************************************)
\* the two presets of the component, and a u-u-u content whose charges
\* cancel; charges in thirds
ConfinementPresets ==
    {[quarks |-> <<"u", "u", "d">>, charges |-> <<2, 2, -1>>],
     [quarks |-> <<"u", "d", "d">>, charges |-> <<2, -1, -1>>],
     [quarks |-> <<"u", "u", "u">>, charges |-> <<2, -1, -1>>]}

\* the progress argument, in units of 1/10000
ConfinementProgress == {0, 100}

\* quark === 'u' ? 2*PI/3 : 4*PI/3, in units of pi/3
BaseTheta(quark) == IF quark = "u" THEN 2 ELSE 4

\* charges[i] * 0.15 * (1 - progress * 0.8), in units of 1/10^7
DeltaTheta(charge, prog) == charge * (500000 - 40 * prog)

\* theta.toFixed(3): 2*PI/3 = 2.0943951 and 4*PI/3 = 4.1887902
ThetaFixed3(h) ==
    ((IF h.base = 2 THEN 20943951 ELSE 41887902) + h.delta + 5000) \div 10000

\* the vertex buffers handed to verifyPinMinusCondition: triangles in the
\* plane z = 0, where normalize() is exact
ClockwiseGeometry == <<<<0, 0, 0>>, <<0, 1, 0>>, <<1, 0, 0>>>>

CounterGeometry == <<<<0, 0, 0>>, <<1, 0, 0>>, <<0, 1, 0>>>>

\* the geometries argument of the hook: absent, the empty list the ref
\* starts with, and a list of three deformed geometries
GeometriesUndefined == [defined |-> FALSE]

GeometriesInputs ==
    {GeometriesUndefined,
     [defined |-> TRUE, value |-> <<>>],
     [defined |-> TRUE,
      value |-> <<ClockwiseGeometry, ClockwiseGeometry, CounterGeometry>>]}

\* Vector3.cross on integer vectors
Cross(a, b) == <<a[2] * b[3] - a[3] * b[2],
                 a[3] * b[1] - a[1] * b[3],
                 a[1] * b[2] - a[2] * b[1]>>

\* Vector3.dot on integer vectors
Dot(a, b) == a[1] * b[1] + a[2] * b[2] + a[3] * b[3]

calculateQuaternionicHolonomy(eng, quarks, charges, prog) ==
    LET key(i) == <<quarks, ToFixed3(prog), i>>
        result(i) == [base |-> BaseTheta(quarks[i]),
                      delta |-> DeltaTheta(charges[i], prog)]
        cache == eng.holonomyCache
    IN  [ret |-> [i \in 1..Len(quarks) |->
                     IF key(i) \in DOMAIN cache THEN cache[key(i)] ELSE result(i)],
         engine |-> [eng EXCEPT !.holonomyCache =
                        [k \in DOMAIN cache \cup {key(i) : i \in 1..Len(quarks)} |->
                            IF k \in DOMAIN cache THEN cache[k] ELSE result(k[3])]]]

\* the loop reads vertices i, i+1 and i+2 for i = 0, 3, 6, ...; a vertex past
\* the end of the buffer is NaN and adds nothing.  cross() and normalize()
\* leave the normal in edge1, so the dot product is taken with the normal
verifyPinMinusCondition(eng, kleinBottleGeometry, quarkIndex) ==
    LET vertexCount == Len(kleinBottleGeometry)
        sampled == {i \in 0..(vertexCount - 1) : i % 3 = 0 /\ i + 3 <= vertexCount}
        edge1(i) == VecSub(kleinBottleGeometry[i + 2], kleinBottleGeometry[i + 1])
        edge2(i) == VecSub(kleinBottleGeometry[i + 3], kleinBottleGeometry[i + 1])
        normal(i) == Cross(edge1(i), edge2(i))
        w1Square == Cardinality({i \in sampled : normal(i)[3] > 0})
        w2 == Cardinality({i \in sampled : Dot(normal(i), edge2(i)) < 0})
        pinMinusValid == ((w2 + w1Square) % 2) = 0
        cache == eng.pinMinusVerification
    IN  IF quarkIndex \in DOMAIN cache
        THEN [ret |-> cache[quarkIndex], engine |-> eng]
        ELSE [ret |-> pinMinusValid,
              engine |-> [eng EXCEPT !.pinMinusVerification =
                             MapSet(cache, quarkIndex, pinMinusValid)]]

\* calculateBordismClass on the holonomies of this part
calculateBordismClassOf(eng, holonomies, pinMinusValid) ==
    LET key == [i \in DOMAIN holonomies |-> ThetaFixed3(holonomies[i])]
        bordismClass == ValidPinMinusCount(pinMinusValid) % 2
        cache == eng.bordismClassification
    IN  IF key \in DOMAIN cache
        THEN [ret |-> cache[key], engine |-> eng]
        ELSE [ret |-> bordismClass,
              engine |-> [eng EXCEPT !.bordismClassification =
                             MapSet(cache, key, bordismClass)]]

\* the sum of the half angles theta/2 of the first n holonomies: base in
\* units of pi/6, delta in units of 1/(2*10^7)
RECURSIVE HalfAngleSum(_, _)
HalfAngleSum(holonomies, n) ==
    IF n = 0
    THEN [base |-> 0, delta |-> 0]
    ELSE LET rest == HalfAngleSum(holonomies, n - 1)
         IN  [base |-> rest.base + holonomies[n].base,
              delta |-> rest.delta + holonomies[n].delta]

\* the product of the unit numbers exp(i*theta/2) is exp(i*sum): its
\* magnitude is 1 up to rounding far below 1e-10, and its imaginary part
\* sin(base*pi/6 + delta/(2*10^7)) is below 1e-10 only for a base that is a
\* multiple of 6 and a delta of 0 (|delta| stays below 0.3 rad here)
verifyColorNeutrality(holonomies) ==
    LET sum == HalfAngleSum(holonomies, Len(holonomies))
    IN  sum.base % 6 = 0 /\ sum.delta = 0

\* geometries?.map((geom, i) => engine.verifyPinMinusCondition(geom, i))
\* on the first n geometries
RECURSIVE MapPinMinus(_, _, _)
MapPinMinus(eng, geometries, n) ==
    IF n = 0
    THEN [ret |-> <<>>, engine |-> eng]
    ELSE LET before == MapPinMinus(eng, geometries, n - 1)
             last == verifyPinMinusCondition(before.engine, geometries[n], n - 1)
         IN  [ret |-> Append(before.ret, last.ret), engine |-> last.engine]

\* the hook with a stability that looks at the bordism class alone
useColorConfinementClassOnly(eng, quarks, charges, prog, geometries) ==
    LET h == calculateQuaternionicHolonomy(eng, quarks, charges, prog)
        p == IF geometries.defined
             THEN MapPinMinus(h.engine, geometries.value, Len(geometries.value))
             ELSE [ret |-> <<TRUE, TRUE, TRUE>>, engine |-> h.engine]
        b == calculateBordismClassOf(p.engine, h.ret, p.ret)
    IN  [ret |-> [holonomies |-> h.ret,
                  pinMinusValid |-> p.ret,
                  bordismClass |-> b.ret,
                  isColorNeutral |-> verifyColorNeutrality(h.ret),
                  isStable |-> (b.ret = 0)],
         engine |-> b.engine]

\* the record the hook returns, without its confinementStrength
useColorConfinement(eng, quarks, charges, prog, geometries) ==
    LET h == calculateQuaternionicHolonomy(eng, quarks, charges, prog)
        p == IF geometries.defined
             THEN MapPinMinus(h.engine, geometries.value, Len(geometries.value))
             ELSE [ret |-> <<TRUE, TRUE, TRUE>>, engine |-> h.engine]
        b == calculateBordismClassOf(p.engine, h.ret, p.ret)
        isColorNeutral == verifyColorNeutrality(h.ret)
    IN  [ret |-> [holonomies |-> h.ret,
                  pinMinusValid |-> p.ret,
                  bordismClass |-> b.ret,
                  isColorNeutral |-> isColorNeutral,
                  isStable |-> (b.ret = 0 /\ isColorNeutral)],
         engine |-> b.engine]

InitConfinement ==
    /\ DriverIdle
    /\ InitProxIdle
    /\ call = [fn |-> "none"]
    /\ ret = <<>>
    /\ pcCall = "idle"
    /\ engine = NewConfinementEngine
    /\ history = <<>>

\* a render of the component runs the hook on the one engine instance
useColorConfinementCall(preset, prog, geometries) ==
    LET r == useColorConfinement(engine, preset.quarks, preset.charges,
                                 prog, geometries)
    IN  /\ call' = [fn |-> "useColorConfinement",
                    quarks |-> preset.quarks,
                    charges |-> preset.charges,
                    progress |-> prog,
                    geometries |-> geometries]
        /\ ret' = r.ret
        /\ engine' = r.engine
        /\ pcCall' = "done"
        /\ UNCHANGED history
        /\ UNCHANGED <<driverVars, proxVars>>

\* the control panel selects a preset: the context stores its name, and
\* nothing reaches the engine
setSelectedPreset(preset) ==
    /\ call' = [fn |-> "setSelectedPreset", preset |-> preset]
    /\ ret' = <<>>
    /\ pcCall' = "done"
    /\ UNCHANGED engine
    /\ UNCHANGED history
    /\ UNCHANGED <<driverVars, proxVars>>

NextConfinement ==
    \/ \E preset \in ConfinementPresets, prog \in ConfinementProgress,
          geometries \in GeometriesInputs :
           useColorConfinementCall(preset, prog, geometries)
    \/ \E preset \in {"proton", "neutron"} : setSelectedPreset(preset)

\* the renders and preset changes of a page, on the one engine instance
SpecConfinement == InitConfinement /\ [][NextConfinement]_vars

calculateQuaternionicHolonomyCall(preset, prog) ==
    LET r == calculateQuaternionicHolonomy(engine, preset.quarks,
                                           preset.charges, prog)
    IN  /\ call' = [fn |-> "calculateQuaternionicHolonomy",
                    quarks |-> preset.quarks,
                    charges |-> preset.charges,
                    progress |-> prog]
        /\ ret' = r.ret
        /\ engine' = r.engine
        /\ pcCall' = "done"
        /\ UNCHANGED history
        /\ UNCHANGED <<driverVars, proxVars>>

verifyPinMinusConditionCall(kleinBottleGeometry, quarkIndex) ==
    LET r == verifyPinMinusCondition(engine, kleinBottleGeometry, quarkIndex)
    IN  /\ call' = [fn |-> "verifyPinMinusCondition",
                    kleinBottleGeometry |-> kleinBottleGeometry,
                    quarkIndex |-> quarkIndex]
        /\ ret' = r.ret
        /\ engine' = r.engine
        /\ pcCall' = "done"
        /\ UNCHANGED history
        /\ UNCHANGED <<driverVars, proxVars>>

NextMemo ==
    \/ \E preset \in ConfinementPresets, prog \in ConfinementProgress :
           calculateQuaternionicHolonomyCall(preset, prog)
    \/ \E g \in {ClockwiseGeometry, CounterGeometry}, quarkIndex \in 0..2 :
           verifyPinMinusConditionCall(g, quarkIndex)

\* any sequence of calls of the two memoized methods, without clearCaches
SpecMemo == InitConfinement /\ [][NextMemo]_vars

(***************************************************************************)
(* Part 11: the delayed updates of FluidEnhancedThreeJSVisualization       *)
(*                                                                         *)
(* The instance under study is the mounted component: its showFluidDynamics *)
(* prop and, for each update callback, the number of setTimeout timers     *)
(* that are pending.  history lists the consumer callbacks invoked, each   *)
(* with whether the component was mounted at that moment; ticks counts the *)
(* runs of animate.                                                        *)
(***************************************************************************)
\* the callbacks delivered through setTimeout(..., 100)
UpdateCallbacks == {"onConfinementUpdate", "onPhysicsUpdate", "onFluidDynamicsUpdate"}

\* the two callbacks whose effect returns () => clearTimeout(timeoutId)
DebouncedCallbacks == {"onConfinementUpdate", "onPhysicsUpdate"}

NewFluidComponent(showFluidDynamics) ==
    [instance |-> "FluidEnhancedThreeJSVisualization",
     showFluidDynamics |-> showFluidDynamics,
     pending |-> [c \in UpdateCallbacks |-> 0]]

InitTeardown ==
    /\ variant = "Fluid"
    /\ dsimTimeStep = StepUndefined
    /\ mounted = FALSE
    /\ isPlaying \in BOOLEAN
    /\ progress = 0
    /\ isPlayingRef = FALSE
    /\ progressRef = 0
    /\ capIsPlaying = FALSE
    /\ capProgress = 0
    /\ frameRef = 0
    /\ rafPending = FALSE
    /\ effectPending = FALSE
    /\ rendered = NoRender
    /\ ticks = 0
    /\ InitProxIdle
    /\ call = [fn |-> "none"]
    /\ ret = <<>>
    /\ pcCall = "idle"
    /\ engine \in {NewFluidComponent(show) : show \in BOOLEAN}
    /\ history = <<>>

\* the tail of renderFluidEnhancedVisualization: a timer per render, whose
\* id is dropped
ScheduleFluidUpdate(component) ==
    IF component.showFluidDynamics
    THEN [component EXCEPT !.pending["onFluidDynamicsUpdate"] = @ + 1]
    ELSE component

\* a consumer callback is invoked
Invoked(callback, isMounted) ==
    Append(history, [callback |-> callback, mounted |-> isMounted])

\* the body of animate with the isPlaying and progress it reads
FluidAnimateBody(playing, p, isMounted) ==
    /\ playing => Len(history) < MaxCalls
    /\ ticks < MaxTicks
    /\ ticks' = ticks + 1
    /\ rafPending' = TRUE
    /\ frameRef' = NextFrame(variant, dsimTimeStep, playing, p, frameRef)
    /\ progress' = IF playing THEN FrameProgress(variant, frameRef') ELSE progress
    /\ history' = IF playing THEN Invoked("onProgressChange", isMounted) ELSE history

\* mount: the debounced effects of the first render arm their timers, the
\* mount effect calls animate() once
FluidMount ==
    /\ ~mounted
    /\ mounted' = TRUE
    /\ capIsPlaying' = isPlaying
    /\ capProgress' = progress
    /\ FluidAnimateBody(isPlaying, progress, TRUE)
    /\ engine' = ScheduleFluidUpdate(
                     [engine EXCEPT !.pending =
                         [c \in UpdateCallbacks |->
                             IF c \in DebouncedCallbacks THEN 1 ELSE @[c]]])
    /\ rendered' = [by |-> "effect", frame |-> frameRef',
                    anchors |-> Anchors(variant, frameRef', progress)]
    /\ UNCHANGED <<variant, dsimTimeStep, isPlaying, isPlayingRef, progressRef,
                   effectPending>>
    /\ UNCHANGED <<proxVars, call, ret, pcCall>>

\* a frame callback: animate of the mount render
FluidAnimate ==
    /\ rafPending
    /\ FluidAnimateBody(capIsPlaying, capProgress, mounted)
    /\ engine' = ScheduleFluidUpdate(engine)
    /\ rendered' = [by |-> "tick", frame |-> frameRef',
                    anchors |-> Anchors(variant, frameRef', capProgress)]
    /\ UNCHANGED <<variant, dsimTimeStep, mounted, isPlaying, isPlayingRef,
                   progressRef, capIsPlaying, capProgress, effectPending>>
    /\ UNCHANGED <<proxVars, call, ret, pcCall>>

\* the metrics changed: the effect's cleanup clears its timer and the effect
\* arms a new one
DebouncedUpdateEffect(callback) ==
    /\ mounted
    /\ engine' = [engine EXCEPT !.pending[callback] = 1]
    /\ UNCHANGED <<driverVars, proxVars, call, ret, pcCall, history>>

\* a pending timer fires and invokes its callback
TimeoutFires(callback) ==
    /\ engine.pending[callback] > 0
    /\ Len(history) < MaxCalls
    /\ engine' = [engine EXCEPT !.pending[callback] = @ - 1]
    /\ history' = Invoked(callback, mounted)
    /\ UNCHANGED <<driverVars, proxVars, call, ret, pcCall>>

\* unmount: the mount effect's cleanup cancels the frame request, the
\* cleanups of the debounced effects clear their timers
FluidCleanup ==
    /\ mounted
    /\ mounted' = FALSE
    /\ rafPending' = FALSE
    /\ engine' = [engine EXCEPT !.pending =
                     [c \in UpdateCallbacks |->
                         IF c \in DebouncedCallbacks THEN 0 ELSE @[c]]]
    /\ UNCHANGED <<variant, dsimTimeStep, isPlaying, progress, isPlayingRef,
                   progressRef, capIsPlaying, capProgress, frameRef,
                   effectPending, rendered, ticks>>
    /\ UNCHANGED <<proxVars, call, ret, pcCall, history>>

NextTeardown ==
    \/ FluidMount
    \/ FluidAnimate
    \/ \E callback \in DebouncedCallbacks : DebouncedUpdateEffect(callback)
    \/ \E callback \in UpdateCallbacks : TimeoutFires(callback)
    \/ FluidCleanup

\* the life of one FluidEnhancedThreeJSVisualization on a page
SpecTeardown == InitTeardown /\ [][NextTeardown]_vars

(***************************************************************************)
(* Part 12: the real-time update handlers of the visualization context     *)
(*                                                                         *)
(* The instance under study is the provider: state holds the three metrics *)
(* fields of its state object.  A metrics value is a record of JavaScript  *)
(* values written as literals; ret tells whether the updater handed to     *)
(* setState returned prev itself or a new object.                          *)
(***************************************************************************)
\* the value null
Null == [value |-> "null"]

\* !value, for the values delivered here
Falsy(value) == value = Null

\* JSON.stringify: the members in order, NaN written as null
Stringify(value) == [k \in DOMAIN value |-> IF value[k] = "NaN" THEN "null" ELSE value[k]]

\* the confinementData, physicsData and fluidDynamicsData delivered: the
\* visualizations deliver confinementData only when it is an object whose
\* confinementStrength is a number
ConfinementDataInputs ==
    [confinementStrength : {"0", "0.5", "NaN"}, isStable : {"true", "false"}]

PhysicsDataInputs ==
    {Null} \cup [deformationMagnitude : {"0", "NaN"}, hasNecking : {"false"}]

FluidDynamicsDataInputs ==
    {Null} \cup [performanceMetrics : {"null", "1"}]

\* the defaults of useState
NewUpdateContext ==
    [instance |-> "VisualizationProvider",
     state |-> [confinementData |-> [confinementStrength |-> "0", isStable |-> "true"],
                physicsData |-> [deformationMagnitude |-> "0", hasNecking |-> "false"],
                fluidDynamicsData |-> [performanceMetrics |-> "null"]]]

InitContext ==
    /\ DriverIdle
    /\ InitProxIdle
    /\ call = [fn |-> "none"]
    /\ ret = <<>>
    /\ pcCall = "idle"
    /\ engine = NewUpdateContext
    /\ history = <<>>

\* a handler whose updater returns { ...prev, [field]: data } every time
SetStateAlways(fn, field, data) ==
    /\ call' = [fn |-> fn, field |-> field, data |-> data, prev |-> engine.state]
    /\ ret' = "new object"
    /\ engine' = [engine EXCEPT !.state = [engine.state EXCEPT ![field] = data]]
    /\ pcCall' = "done"
    /\ UNCHANGED history
    /\ UNCHANGED <<driverVars, proxVars>>

\* setState(prev => changed ? { ...prev, [field]: data } : prev)
SetStateIfChanged(fn, field, data) ==
    LET prev == engine.state
        changed == Falsy(prev[field]) \/ Stringify(prev[field]) # Stringify(data)
    IN  /\ call' = [fn |-> fn, field |-> field, data |-> data, prev |-> prev]
        /\ ret' = IF changed THEN "new object" ELSE "prev"
        /\ engine' = IF changed
                     THEN [engine EXCEPT !.state = [prev EXCEPT ![field] = data]]
                     ELSE engine
        /\ pcCall' = "done"
        /\ UNCHANGED history
        /\ UNCHANGED <<driverVars, proxVars>>

\* a handler that returns without calling setState
NoSetState(fn, field, data) ==
    /\ call' = [fn |-> fn, field |-> field, data |-> data, prev |-> engine.state]
    /\ ret' = "prev"
    /\ pcCall' = "done"
    /\ UNCHANGED engine
    /\ UNCHANGED history
    /\ UNCHANGED <<driverVars, proxVars>>

handleConfinementUpdate(data) ==
    SetStateIfChanged("handleConfinementUpdate", "confinementData", data)

handlePhysicsUpdate(data) ==
    IF ~Falsy(data)
    THEN SetStateIfChanged("handlePhysicsUpdate", "physicsData", data)
    ELSE NoSetState("handlePhysicsUpdate", "physicsData", data)

handleFluidDynamicsUpdate(data) ==
    IF ~Falsy(data)
    THEN SetStateIfChanged("handleFluidDynamicsUpdate", "fluidDynamicsData", data)
    ELSE NoSetState("handleFluidDynamicsUpdate", "fluidDynamicsData", data)

NextContext ==
    \/ \E data \in ConfinementDataInputs : handleConfinementUpdate(data)
    \/ \E data \in PhysicsDataInputs : handlePhysicsUpdate(data)
    \/ \E data \in FluidDynamicsDataInputs : handleFluidDynamicsUpdate(data)

\* any sequence of deliveries to the one provider
SpecContext == InitContext /\ [][NextContext]_vars

(***************************************************************************)
(* Properties of the animation driver                                      *)
(***************************************************************************)
\* the mirror effects of the last render have run (nothing to wait for in
\* the variants without mirrors)
Settled ==
    Mirrored(variant) => (isPlayingRef = isPlaying /\ progressRef = progress)

\* the Stopped state of the driver: not playing, progress 0
Stopped == ~isPlaying /\ progress = 0

\* C1: the driver starts Stopped; play, pause and resume toggle between
\* Stopped/Paused and Running; reset leads to Stopped from any state, and
\* the ticks that follow a reset leave the frame index at 0
C1_Transitions ==
    /\ (~mounted /\ ticks = 0 /\ rendered = NoRender) => Stopped
    /\ [][/\ TogglePlay => (isPlaying' = ~isPlaying /\ progress' = progress)
          /\ handleReset => Stopped'
          /\ (Tick /\ Stopped /\ Settled) => (frameRef' = 0 /\ Stopped')]_vars

\* C2: after every tick the frame index is within 0..totalFrames-1 and the
\* progress the tick reports is frameIndex / totalFrames
C2_FrameIndexInRange ==
    [][Tick => /\ frameRef' \in 0..(TotalFrames(variant) - 1)
               /\ (progress' # progress => progress' = FrameProgress(variant, frameRef'))]_vars

\* C3: while Running every tick adds the step (at least 1) to the frame
\* index modulo totalFrames, reports frameIndex / totalFrames and runs the
\* per-frame pipeline for that frame
C3_RunningTickAdvances ==
    [][(Tick /\ isPlaying /\ Settled) =>
        /\ Step(variant, dsimTimeStep) >= 1
        /\ frameRef' = (frameRef + Step(variant, dsimTimeStep)) % TotalFrames(variant)
        /\ progress' = FrameProgress(variant, frameRef')
        /\ rendered'.by = "tick"
        /\ rendered'.frame = frameRef']_vars

\* C4: while Paused or Stopped the pipeline run that follows a seek renders
\* the frame of the seeked progress, and ticks do not advance the frame
C4_SeekRendersSeekedFrame ==
    [][/\ (RenderEffect /\ ~isPlaying) => rendered'.frame = FloorFrame(variant, progress)
       /\ (Tick /\ ~isPlaying /\ Settled) => frameRef' = FloorFrame(variant, progress)]_vars

\* C5: in every variant the running loop follows the commands given after it
\* started: once a play has reached the loop its ticks advance the frame
\* index, once a pause has they stop advancing it, and the frame index then
\* is the one of the last seek
C5_CommandsReachLoop ==
    [][(Tick /\ Settled) =>
        IF isPlaying THEN frameRef' # frameRef
        ELSE frameRef' = FloorFrame(variant, progress)]_vars

\* C6: the anchors a tick's pipeline works on are the ones of that tick's
\* already-advanced frame index
C6_TickAnchorsCurrent ==
    [][Tick => rendered'.anchors = FrameProgress(variant, frameRef')]_vars

\* C7: while the driver is Running only its tick changes the frame index or
\* the progress
C7_ClockOwnedByTick ==
    [][(mounted /\ isPlaying /\ isPlaying' /\ <<frameRef, progress>>' # <<frameRef, progress>>)
        => Tick]_vars

Norm(a, b) ==
    CHOOSE d \in 0..(3 * (MaxCoord + 4)) : d * d = LengthSq(VecSub(a, b))

\* baseInfluence * (1 - distance/threshold) * decayRate^distance
InfluenceLaw(d, ps) ==
    RatMul(RatMul(ps.proximityInfluence,
                  RatSub(One, RatDiv(Rat(d, 1), ps.proximityThreshold))),
           Pow(ps.forceDecayRate, d))

\* C9: for every ordered pair i # j the reported distance is
\* |anchors[i] - anchors[j]|, the influence is 0 at or beyond the threshold
\* and baseInfluence * (1 - distance/threshold) * decayRate^distance below it
C9_ProximityLaw ==
    pcProx = "done" =>
        /\ DOMAIN results = OffDiagonal
        /\ \A ij \in OffDiagonal :
            LET d == Norm(positions[ij[1]], positions[ij[2]])
            IN  /\ results[ij].distance = d
                /\ IF ~RatLess(Rat(d, 1), params.proximityThreshold)
                   THEN results[ij].influence = Zero
                   ELSE results[ij].influence = InfluenceLaw(d, params)

\* a call with one pair below the threshold at non-zero distance and one
\* pair beyond it, under a decay rate other than 1
C9_Witness ==
    /\ pcProx = "done"
    /\ params.forceDecayRate \notin {Zero, One}
    /\ params.proximityInfluence # Zero
    /\ \E ij \in OffDiagonal :
        /\ results[ij].distance > 0
        /\ results[ij].influence # Zero
    /\ \E ij \in OffDiagonal :
        /\ ~RatLess(Rat(results[ij].distance, 1), params.proximityThreshold)
        /\ results[ij].influence = Zero

\* two pairs of one call at distances d1 < d2 < threshold
Ordered(ij, kl) ==
    /\ results[ij].distance < results[kl].distance
    /\ RatLess(Rat(results[kl].distance, 1), params.proximityThreshold)

\* C10 as stated: influence(d1) > influence(d2) for d1 < d2 < threshold
\* under every parameter setting
C10_StrictlyMonotone ==
    pcProx = "done" =>
        \A ij, kl \in OffDiagonal :
            Ordered(ij, kl) => RatLess(results[kl].influence, results[ij].influence)

\* C10 amended: influence(d1) > influence(d2) for d1 < d2 < threshold when
\* baseInfluence > 0 and 0 < decayRate <= 1
C10_MonotoneForDecay ==
    (/\ pcProx = "done"
     /\ RatLess(Zero, params.proximityInfluence)
     /\ RatLess(Zero, params.forceDecayRate)
     /\ ~RatLess(One, params.forceDecayRate)) =>
        \A ij, kl \in OffDiagonal :
            Ordered(ij, kl) => RatLess(results[kl].influence, results[ij].influence)

\* a call under decay rate 1 and positive base influence with two pairs at
\* different distances below the threshold
C10_Witness ==
    /\ pcProx = "done"
    /\ params.forceDecayRate = One
    /\ RatLess(Zero, params.proximityInfluence)
    /\ \E ij, kl \in OffDiagonal : Ordered(ij, kl)

\* C11: a pair of coincident anchors (distance 0) gets influence 0 whatever
\* the parameters are
C11_CoincidentInfluenceZero ==
    pcProx = "done" =>
        \A ij \in OffDiagonal :
            results[ij].distance = 0 => results[ij].influence = Zero

Blended == pcCall = "done" /\ call.fn = "performFluidBlending"

\* the tolerance of testFluidBlending
EndpointTolerance == Half

EndpointsWithin(tol) ==
    /\ call.mergerProgress = Zero =>
           RatLess(calculateAverageVertexDisplacement(ret, call.verticesA), tol)
    /\ call.mergerProgress = One =>
           RatLess(calculateAverageVertexDisplacement(ret, call.verticesB), tol)

\* C13 as stated: for any two buffers of one size and the default parameters
\* the blend at progress 0 is within 0.5 of A on average, and the blend at
\* progress 1 within 0.5 of B
C13_EndpointLaws ==
    (/\ Blended
     /\ call.params = DefaultBlendParams
     /\ VertexCount(call.verticesA) = VertexCount(call.verticesB)
     /\ VertexCount(call.verticesA) > 0)
        => EndpointsWithin(EndpointTolerance)

\* C13 amended: for the surfaces of testFluidBlending (a test Klein bottle
\* and the same bottle scaled by 1.5) and the default parameters the blend at
\* progress 0 is within 0.5 of A on average, and at progress 1 within 0.5 of B
C13_TestSurfaceEndpoints ==
    (Blended /\ call.test /\ call.params = DefaultBlendParams)
        => EndpointsWithin(EndpointTolerance)

C13_Witness ==
    /\ Blended
    /\ call.test
    /\ call.params = DefaultBlendParams
    /\ call.mergerProgress = One
    /\ VertexCount(call.verticesA) = 10
    /\ calculateAverageVertexDisplacement(ret, call.verticesB) # Zero
    /\ RatLess(calculateAverageVertexDisplacement(ret, call.verticesB), EndpointTolerance)

Shorter == IF VertexCount(call.verticesA) < VertexCount(call.verticesB)
           THEN call.verticesA ELSE call.verticesB

MaxCount == Max(VertexCount(call.verticesA), VertexCount(call.verticesB))

UnequalCounts == VertexCount(call.verticesA) # VertexCount(call.verticesB)

\* the blend of vertex i when the shorter buffer contributes sample s
BlendWithSample(i, s) ==
    IF VertexCount(call.verticesA) < VertexCount(call.verticesB)
    THEN BlendVertex(s, call.verticesB[i], call.mergerProgress, call.params)
    ELSE BlendVertex(call.verticesA[i], s, call.mergerProgress, call.params)

\* C14 as stated: with unequal vertex counts the blend has max(count) vertices
\* and every missing sample of the shorter buffer has the index
\* floor(i / maxCount * shorterCount), a valid index of the shorter buffer
C14_SourceIndexAlwaysValid ==
    (Blended /\ UnequalCounts) =>
        /\ VertexCount(ret) = MaxCount
        /\ \A i \in VertexCount(Shorter)..(MaxCount - 1) :
               SourceIndex(i, MaxCount, VertexCount(Shorter)) \in DOMAIN Shorter

\* C14 amended: with unequal vertex counts the blend has max(count) vertices;
\* a missing sample of a non-empty shorter buffer is its vertex at the valid
\* index floor(i / maxCount * shorterCount), and a missing sample of an empty
\* buffer is the zero vertex
C14_UnequalCounts ==
    (Blended /\ UnequalCounts) =>
        /\ DOMAIN ret = 0..(MaxCount - 1)
        /\ \A i \in VertexCount(Shorter)..(MaxCount - 1) :
               IF VertexCount(Shorter) = 0
               THEN ret[i] = BlendWithSample(i, ZeroVector)
               ELSE /\ SourceIndex(i, MaxCount, VertexCount(Shorter)) \in DOMAIN Shorter
                    /\ (i * VertexCount(Shorter)) \div MaxCount \in DOMAIN Shorter
                    /\ ret[i] = BlendWithSample(
                           i, Shorter[(i * VertexCount(Shorter)) \div MaxCount])

C14_Witness ==
    /\ Blended
    /\ VertexCount(call.verticesA) = 2
    /\ VertexCount(call.verticesB) = 3
    /\ call.verticesA[0] # call.verticesA[1]
    /\ call.mergerProgress = Zero
    /\ ret[2] = BlendWithSample(2, call.verticesA[1])
    /\ ret[2] # BlendWithSample(2, call.verticesA[0])

(***************************************************************************)
(* Properties of the necking bridges                                       *)
(***************************************************************************)
Rendered == pcCall = "done" /\ call.fn = "render"

\* the distance cutoff of the variant that renders
Cutoff ==
    IF call.variant = "Fluid" THEN FluidCutoff(call.blendingIntensity) ELSE NeckingCutoff

\* the progress a frame has to exceed before the variant draws bridges
Activation ==
    IF call.variant = "Fluid" THEN FluidActivation
    ELSE NeckingStart(LocalityThreshold(call.dsimProximityThreshold))

WithinCutoff(ij) ==
    DistanceLess(PairDistanceSq(currentPositions(call.progress), ij), Cutoff)

\* C15: a render of any variant draws a bridge between anchors i and j only
\* if their distance is below the cutoff and the progress of the frame is
\* above the activation threshold, and draws none when no pair is in range
C15_BridgesGated ==
    Rendered =>
        /\ \A ij \in ret :
               /\ ij \in Pairs
               /\ WithinCutoff(ij)
               /\ call.frame * Activation.d > Activation.n * LiteralTotalFrames
        /\ (\A ij \in Pairs : ~WithinCutoff(ij)) => ret = {}

C15_Witness ==
    /\ Rendered
    /\ call.variant = "Enhanced"
    /\ ret # {}
    /\ ret # Pairs

(***************************************************************************)
(* Properties of calculateBordismClass                                     *)
(***************************************************************************)
\* C16: whatever calls preceded it, a call of calculateBordismClass returns
\* 0 or 1, the parity of the number of true entries of pinMinusValid
C16_BordismParity ==
    (pcCall = "done" /\ call.fn = "calculateBordismClass") =>
        /\ ret \in {0, 1}
        /\ ret = Cardinality({i \in 1..NumAnchors : call.pinMinusValid[i]}) % 2

(***************************************************************************)
(* Properties of the edge cases                                            *)
(***************************************************************************)
FiniteVector(v) == \A k \in 1..3 : IsFinite(v[k])

\* C17: an empty vertex buffer, a single-vertex buffer, coincident anchors
\* and anchors 1000 units apart are accepted, and every number of the result
\* is finite
C17_EdgeCasesFinite ==
    /\ (pcCall = "done" /\ call.fn = "calculateProximityPhysics") =>
           /\ DOMAIN ret = {<<1, 2>>, <<2, 1>>}
           /\ \A ij \in DOMAIN ret :
                  /\ ret[ij].distance \in Nat
                  /\ IsFinite(ret[ij].influence)
                  /\ FiniteVector(ret[ij].direction)
                  /\ FiniteVector(ret[ij].forceVector)
    /\ (pcCall = "done" /\ call.fn = "computePairwiseDeformationVectors") =>
           /\ DOMAIN ret = DOMAIN call.vertices
           /\ \A i \in DOMAIN ret : FiniteVector(ret[i])

C17_Witness ==
    /\ pcCall = "done"
    /\ call.fn = "computePairwiseDeformationVectors"
    /\ call.vertices = <<Origin>>
    /\ Len(call.quarkPositions) = NumAnchors
    /\ call.quarkPositions[1] = Origin
    /\ call.quarkPositions[3] = <<0, 0, 1>>
    /\ ret[1] # ZeroVector

(***************************************************************************)
(* Properties of the configuration                                         *)
(***************************************************************************)
\* proximityInfluence is documented as 0-1; a threshold is not negative
InRange(ps) ==
    /\ ~RatLess(ps.proximityThreshold, Zero)
    /\ ~RatLess(ps.proximityInfluence, Zero)
    /\ ~RatLess(One, ps.proximityInfluence)

\* C18: no frame of the pipeline works on an out-of-range tunable: the
\* setter has clamped or rejected it before
C18_PipelineSeesValidConfig ==
    (pcCall = "done" /\ call.fn = "computePairwiseDeformationVectors") =>
        InRange(call.params)

(***************************************************************************)
(* Properties of the vertex buffer                                         *)
(***************************************************************************)
\* C19: the vertex buffer of a particle is a flat array of x, y, z triples,
\* one per grid node, of length 3 * (uSegments + 1) * (vSegments + 1)
C19_VertexBufferShape ==
    (pcCall = "done" /\ call.fn = "renderKleinBottles") =>
        /\ Len(ret) = 3 * (call.uSegments + 1) * (call.vSegments + 1)
        /\ \A n \in 0..((call.uSegments + 1) * (call.vSegments + 1) - 1) :
               /\ <<ret[3 * n + 1].axis, ret[3 * n + 2].axis, ret[3 * n + 3].axis>>
                      = <<"x", "y", "z">>
               /\ \A k \in 1..3 :
                      /\ ret[3 * n + k].u = n \div (call.vSegments + 1)
                      /\ ret[3 * n + k].v = n % (call.vSegments + 1)
                      /\ ret[3 * n + k].particle = call.particle

C19_Witness ==
    /\ pcCall = "done"
    /\ call.fn = "renderKleinBottles"
    /\ call.variant = "Fluid"
    /\ call.showFluidDynamics
    /\ call.uSegments = 2
    /\ call.vSegments = 3
    /\ Len(ret) = 36
    /\ ret[36].warped

(***************************************************************************)
(* Properties of the noise generator and the surface function              *)
(***************************************************************************)
Deterministic(fn) ==
    \A m, n \in DOMAIN history :
        (history[m].call.fn = fn /\ history[m].call = history[n].call)
            => history[m].ret = history[n].ret

\* C20: on one engine two calls of generateFluidKleinBottleSurface or of
\* noise3D with identical arguments return identical results whatever calls
\* happen in between, and no call changes the permutation table, the state
\* of the engine or the arguments it was given
C20_Deterministic ==
    engine.instance = "FluidDynamicsEngine" =>
        /\ Deterministic("noise3D")
        /\ Deterministic("generateFluidKleinBottleSurface")
        /\ \A n \in DOMAIN history :
               /\ history[n].permutation = engine.permutation
               /\ history[n].after = history[n].call
        /\ engine.deformationStates = EmptyMap
        /\ engine.mergerStates = EmptyMap

C20_Witness ==
    /\ engine.instance = "FluidDynamicsEngine"
    /\ Len(history) = 3
    /\ history[1].call.fn = "noise3D"
    /\ history[2].call.fn = "clearCaches"
    /\ history[3].call = history[1].call
    /\ history[3].ret = history[1].ret
    /\ history[1].ret # Zero

(***************************************************************************)
(* Properties of SimplePerlinNoise.noise3D                                 *)
(***************************************************************************)
\* the noise3D calls of the log
NoiseCalls == {i \in 1..Len(history) : history[i].call.fn = "noise3D"}

\* C21: every index at which noise3D reads the permutation table lies within
\* the table's 512 entries, for negative and for large arguments too, and the
\* value it returns is a finite number
C21_NoiseIndicesInTable ==
    \A i \in NoiseCalls :
        /\ DOMAIN history[i].permutation = 0..511
        /\ PermutationReads(history[i].permutation, history[i].call.x,
                            history[i].call.y, history[i].call.z) \subseteq 0..511
        /\ IsFinite(history[i].ret)

\* a call with a negative and a large argument has read the last entry of
\* the table
C21_Witness ==
    \E i \in NoiseCalls :
        /\ RatLess(history[i].call.x, Zero)
        /\ RatLess(Rat(1000000, 1), history[i].call.y)
        /\ 511 \in PermutationReads(history[i].permutation, history[i].call.x,
                                     history[i].call.y, history[i].call.z)

(***************************************************************************)
(* Properties of generateFluidKleinBottleSurface                           *)
(***************************************************************************)
\* the generateFluidKleinBottleSurface calls of the log
SurfaceCalls ==
    {i \in 1..Len(history) : history[i].call.fn = "generateFluidKleinBottleSurface"}

\* the steps of the i-th call of the log
StepsOf(i) == DeformationSteps(history[i].permutation, history[i].call.params)

\* the composition as stated: the base point plus the five contributions,
\* that sum scaled by 1 + bulge, the scaled sum translated by the offset
StatedComposition(s) ==
    VecAdd(MultiplyScalar(
               VecAdd(VecAdd(VecAdd(VecAdd(VecAdd(s.base, s.sineDistortion), s.pull),
                                    s.tensionSmoothing),
                             s.noiseDeformation),
                      s.wiggleDeformation),
               RatAdd(One, s.bulgingFactor)),
           s.offset)

\* C22: the point generateFluidKleinBottleSurface returns is the base point
\* plus the breathing, pull, tension, noise and wiggle contributions, scaled
\* by 1 + bulge and then translated by the offset
C22_StatedOrder ==
    \A i \in SurfaceCalls : history[i].ret = StatedComposition(StepsOf(i))

\* C23: for a deformation intensity in [0, 1] the bulge multiplier
\* calculateLocalBulging returns, which is the one the surface function
\* scales position by, is non-negative and at most 0.3 times the intensity
C23_BulgeCapped ==
    (pcCall = "done" /\ call.fn = "calculateLocalBulging"
        /\ ~RatLess(call.intensity, Zero) /\ ~RatLess(One, call.intensity)) =>
            /\ ~RatLess(ret, Zero)
            /\ ~RatLess(RatMul(Rat(3, 10), call.intensity), ret)

\* three neighbours at the position: the sum of their influences is 0.45 times
\* the intensity and the multiplier is the cap
C23_Witness ==
    /\ pcCall = "done"
    /\ call.fn = "calculateLocalBulging"
    /\ Len(call.interactionVecs) = 3
    /\ call.intensity = Rat(1, 5)
    /\ SumBulging(call.position, call.interactionVecs, 3, call.intensity) = Rat(9, 100)
    /\ ret = Rat(3, 50)

(***************************************************************************)
(* Properties of the bridge geometry                                       *)
(***************************************************************************)
\* a < b for two radii (by the sign of their difference)
RadiusLess(a, b) == RatSub(a, b).n < 0

\* C24: for fixed parameters the radius of a bridge is smaller at a larger
\* progress, and in one render the bridge of a closer pair has a smaller
\* radius than the bridge of a farther pair
C24_RadiusShrinks ==
    (pcCall = "done" /\ call.fn = "renderBridges") =>
        /\ \A ij \in DOMAIN ret : \A p \in 0..Hundred :
               p > call.progress =>
                   RadiusLess(BridgeRadius([call EXCEPT !.progress = p]), ret[ij])
        /\ \A ij, kl \in DOMAIN ret :
               PairDistanceSq(currentPositions(call.progress), ij)
                   < PairDistanceSq(currentPositions(call.progress), kl)
                       => RadiusLess(ret[ij], ret[kl])

(***************************************************************************)
(* Properties of the ColorConfinementEngine                                *)
(***************************************************************************)
\* C25: a metrics record that reports isStable reports isColorNeutral, which
\* is the neutrality of its own holonomies, and bordismClass 0
C25_StableIsNeutralClassZero ==
    (pcCall = "done" /\ call.fn = "useColorConfinement" /\ ret.isStable) =>
        /\ ret.isColorNeutral
        /\ verifyColorNeutrality(ret.holonomies)
        /\ ret.bordismClass = 0

\* a stable record of three quarks with deformed geometries, and on the same
\* engine earlier or later records that are not stable
C25_Witness ==
    /\ pcCall = "done"
    /\ call.fn = "useColorConfinement"
    /\ ret.isStable
    /\ Len(ret.holonomies) = 3
    /\ call.geometries.defined
    /\ Len(ret.pinMinusValid) = 3

\* the number of entries the three caches hold
CachedEntries ==
    Cardinality(DOMAIN engine.holonomyCache)
        + Cardinality(DOMAIN engine.pinMinusVerification)
        + Cardinality(DOMAIN engine.bordismClassification)

\* C26: the caches are cleared whenever the configuration changes: after a
\* preset change the engine holds no cached entry
C26_ClearedOnPresetChange ==
    (pcCall = "done" /\ call.fn = "setSelectedPreset") => CachedEntries = 0

\* C27: without clearCaches, calculateQuaternionicHolonomy and
\* verifyPinMinusCondition return what an engine with empty caches computes
\* for the same arguments
C27_MemoTransparent ==
    pcCall = "done" =>
        /\ call.fn = "calculateQuaternionicHolonomy" =>
               ret = calculateQuaternionicHolonomy(NewConfinementEngine,
                         call.quarks, call.charges, call.progress).ret
        /\ call.fn = "verifyPinMinusCondition" =>
               ret = verifyPinMinusCondition(NewConfinementEngine,
                         call.kleinBottleGeometry, call.quarkIndex).ret

(***************************************************************************)
(* Properties of pausing                                                   *)
(***************************************************************************)
\* C28: in the variants with ref mirrors, once the pause and the progress
\* report of the last Running tick have reached the mirrors, a tick leaves
\* the frame index where that Running tick put it
C28_PausePreservesFrame ==
    [][(/\ ticks' = ticks + 1
        /\ Mirrored(variant)
        /\ ~isPlaying
        /\ Settled
        /\ progress = FrameProgress(variant, frameRef))
           => frameRef' = frameRef]_vars

(***************************************************************************)
(* Properties of the teardown                                              *)
(***************************************************************************)
\* C29: no consumer callback is invoked while the visualization is torn
\* down: every callback invoked so far found the component mounted
C29_NoCallbackAfterTeardown ==
    \A i \in 1..Len(history) : history[i].mounted

(***************************************************************************)
(* Properties of the context's update handlers                             *)
(***************************************************************************)
\* C30: delivering to a handler a value equal to the one stored returns the
\* very same state object, with every field as it was
C30_HandlersIdempotent ==
    (pcCall = "done" /\ call.data = call.prev[call.field]) =>
        /\ ret = "prev"
        /\ engine.state = call.prev

\* a metrics value that an earlier delivery stored is delivered again to
\* each of the three handlers
C30_Witness ==
    /\ pcCall = "done"
    /\ call.data = call.prev[call.field]
    /\ call.data # NewUpdateContext.state[call.field]
    /\ \A field \in DOMAIN engine.state :
           engine.state[field] # NewUpdateContext.state[field]
    /\ ret = "prev"

====
